---- MODULE Spec2Model ----
(***************************************************************************)
(* Model of the member commit filter of the MLS proposal pipeline          *)
(* (aws-mls/src/group/proposal_filter/filtering.rs): a committer collects  *)
(* proposals in a ProposalBundle and apply_proposals_from_member filters   *)
(* the bundle under a FilterStrategy, validates the new leaves and edits a *)
(* clone of the ratchet tree.                                              *)
(***************************************************************************)
EXTENDS Integers, Sequences, FiniteSets, TLC

\* Largest number of proposals collected in one bundle.
MaxProposals == 2

(***************************************************************************)
(* Result<T, MlsError>                                                     *)
(***************************************************************************)
Ok(v) == [ok |-> TRUE, val |-> v, err |-> "none"]

Err(e) == [ok |-> FALSE, val |-> "none", err |-> e]

\* Result::and: the first error of the two, otherwise the second result.
And(r1, r2) == IF r1.ok THEN r2 ELSE r1

Unit == "unit"

(***************************************************************************)
(* Senders, proposal types, strategies                                     *)
(***************************************************************************)
Member(i) == [kind |-> "Member", index |-> i]

External == [kind |-> "External", index |-> 0]

NewMemberCommit == [kind |-> "NewMemberCommit", index |-> 0]

NewMemberProposal == [kind |-> "NewMemberProposal", index |-> 0]

ProposalTypes ==
    {"ADD", "UPDATE", "REMOVE", "PSK", "RE_INIT", "EXTERNAL_INIT",
     "GROUP_CONTEXT_EXTENSIONS", "CUSTOM"}

FilterStrategy == {"IgnoreByRef", "IgnoreNone"}

\* FilterStrategy::ignore
ignore(strategy, by_ref) ==
    CASE strategy = "IgnoreByRef" -> by_ref
      [] strategy = "IgnoreNone" -> FALSE

\* FilterStrategy::is_ignore
is_ignore(strategy) ==
    CASE strategy = "IgnoreByRef" -> TRUE
      [] strategy = "IgnoreNone" -> FALSE

\* A mutation of apply_strategy: every failure is ignored under IgnoreByRef,
\* whatever the origin of the proposal.
apply_strategy_any_origin(strategy, by_ref, r) ==
    IF r.ok THEN Ok(TRUE)
    ELSE IF is_ignore(strategy) THEN Ok(FALSE) ELSE Err(r.err)

\* A mutation of apply_strategy: a by-reference failure is ignored under
\* either strategy.
apply_strategy_any_strategy(strategy, by_ref, r) ==
    IF r.ok THEN Ok(TRUE)
    ELSE IF by_ref THEN Ok(FALSE) ELSE Err(r.err)

\* A mutation of apply_strategy: a proposal the strategy would ignore is
\* dropped even when its check passes.
apply_strategy_drops_ignorable(strategy, by_ref, r) ==
    IF r.ok THEN Ok(~ignore(strategy, by_ref))
    ELSE IF ignore(strategy, by_ref) THEN Ok(FALSE) ELSE Err(r.err)

\* apply_strategy: Ok(true) keeps the proposal, Ok(false) drops it, Err fails
\* the commit.
apply_strategy(strategy, by_ref, r) ==
    IF r.ok THEN Ok(TRUE)
    ELSE IF ignore(strategy, by_ref) THEN Ok(FALSE) ELSE Err(r.err)

\* A mutation of proposer_can_propose: a member may also send Update by value.
proposer_can_propose_update_by_value(proposer, proposal_type, by_ref) ==
    LET can_propose ==
            CASE proposer.kind = "Member" ->
                    proposal_type \in {"ADD", "UPDATE", "REMOVE", "PSK", "RE_INIT",
                                       "GROUP_CONTEXT_EXTENSIONS"}
              [] proposer.kind = "External" /\ by_ref ->
                    proposal_type \in {"ADD", "REMOVE", "RE_INIT", "PSK",
                                       "GROUP_CONTEXT_EXTENSIONS"}
              [] proposer.kind = "NewMemberCommit" /\ ~by_ref ->
                    proposal_type \in {"REMOVE", "PSK", "EXTERNAL_INIT"}
              [] proposer.kind = "NewMemberProposal" /\ by_ref ->
                    proposal_type = "ADD"
              [] OTHER -> FALSE
    IN  IF can_propose THEN Ok(Unit) ELSE Err("InvalidProposalTypeForSender")

\* proposer_can_propose
proposer_can_propose(proposer, proposal_type, by_ref) ==
    LET can_propose ==
            CASE proposer.kind = "Member" /\ ~by_ref ->
                    proposal_type \in {"ADD", "REMOVE", "PSK", "RE_INIT",
                                       "GROUP_CONTEXT_EXTENSIONS"}
              [] proposer.kind = "Member" /\ by_ref ->
                    proposal_type \in {"ADD", "UPDATE", "REMOVE", "PSK", "RE_INIT",
                                       "GROUP_CONTEXT_EXTENSIONS"}
              [] proposer.kind = "External" /\ ~by_ref -> FALSE
              [] proposer.kind = "External" /\ by_ref ->
                    proposal_type \in {"ADD", "REMOVE", "RE_INIT", "PSK",
                                       "GROUP_CONTEXT_EXTENSIONS"}
              [] proposer.kind = "NewMemberCommit" /\ ~by_ref ->
                    proposal_type \in {"REMOVE", "PSK", "EXTERNAL_INIT"}
              [] proposer.kind = "NewMemberCommit" /\ by_ref -> FALSE
              [] proposer.kind = "NewMemberProposal" /\ ~by_ref -> FALSE
              [] proposer.kind = "NewMemberProposal" /\ by_ref ->
                    proposal_type = "ADD"
    IN  IF can_propose THEN Ok(Unit) ELSE Err("InvalidProposalTypeForSender")

(***************************************************************************)
(* Leaves, extension lists, the ratchet tree                               *)
(***************************************************************************)
\* A leaf node: the identity it is signed by, what LeafNodeValidator will
\* answer for it, and the extension types and custom proposal types its
\* capabilities advertise.
LeafNode(identity, validity, capabilities) ==
    [signing_identity |-> identity, validity |-> validity,
     capabilities |-> capabilities]

Blank == LeafNode("blank", "Ok", {})

\* An ExtensionList: the extension types it holds, the state of its
\* external-senders extension and of its required-capabilities extension.
ExtensionList(types, external_senders, required_capabilities) ==
    [types |-> types, external_senders |-> external_senders,
     required_capabilities |-> required_capabilities]

\* TreeKemPublic::get_leaf_node; leaf index i is slot i + 1 of the tree.
get_leaf_node(tree, index) ==
    IF index + 1 \in DOMAIN tree /\ tree[index + 1] /= Blank
    THEN Ok(tree[index + 1])
    ELSE Err("LeafNotFound")

\* LeafNodeValidator::check_if_valid: the provider's verdict on the leaf.
check_if_valid(leaf) ==
    IF leaf.validity = "Ok" THEN Ok(Unit) ELSE Err(leaf.validity)

\* leaf_supports_extensions: the leaf advertises every extension in use.
leaf_supports_extensions(leaf, group_extensions_in_use) ==
    IF group_extensions_in_use.types \subseteq leaf.capabilities
    THEN Ok(Unit)
    ELSE Err("UnsupportedGroupExtension")

\* IdentityProvider::valid_successor: the provider accepts a successor that
\* keeps the identity, and reports an error for an identity it cannot read.
valid_successor(old_identity, new_identity) ==
    IF new_identity = "unreadable" THEN Err("IdentityProviderError")
    ELSE Ok(new_identity = old_identity)

\* validate_key_package_properties: the verdict carried by the key package.
validate_key_package_properties(key_package) ==
    IF key_package.properties = "Ok" THEN Ok(Unit) ELSE Err(key_package.properties)

\* ExtensionList::get_as::<RequiredCapabilitiesExt>
get_as_required_capabilities(extension_list) ==
    IF extension_list.required_capabilities = "malformed"
    THEN Err("ExtensionError")
    ELSE Ok(extension_list.required_capabilities)

(***************************************************************************)
(* ProposalInfo and ProposalBundle                                         *)
(***************************************************************************)
ProposalInfo(proposal, sender, by_ref) ==
    [proposal |-> proposal, sender |-> sender,
     source |-> IF by_ref THEN "ByReference" ELSE "ByValue"]

is_by_reference(p) == p.source = "ByReference"

is_by_value(p) == p.source = "ByValue"

\* The proposal sequences of a bundle, one per proposal type.
BundleFields ==
    <<"additions", "updates", "removals", "psks", "reinitializations",
      "external_initializations", "group_context_extensions",
      "custom_proposals">>

FieldSet == {BundleFields[k] : k \in DOMAIN BundleFields}

EmptyBundle ==
    [additions |-> <<>>, updates |-> <<>>, update_senders |-> <<>>,
     removals |-> <<>>, psks |-> <<>>, reinitializations |-> <<>>,
     external_initializations |-> <<>>, group_context_extensions |-> <<>>,
     custom_proposals |-> <<>>]

\* The elements of s whose (1-based) index is in K, in order.
KeepIndexes(s, K) ==
    LET F[i \in 0..Len(s)] ==
            IF i = 0 THEN <<>>
            ELSE IF i \in K THEN Append(F[i - 1], s[i]) ELSE F[i - 1]
    IN  F[Len(s)]

RemoveAt(s, i) == KeepIndexes(s, (1..Len(s)) \ {i})

\* ProposalBundle::length
length(proposals) ==
    Len(proposals.additions) + Len(proposals.updates) + Len(proposals.removals)
    + Len(proposals.psks) + Len(proposals.reinitializations)
    + Len(proposals.external_initializations)
    + Len(proposals.group_context_extensions)
    + Len(proposals.custom_proposals)

\* ProposalBundle::add
add(proposals, field, p) ==
    [proposals EXCEPT ![field] = Append(@, p)]

\* ProposalBundle::remove::<T>(i): removing an Update also removes the entry
\* of update_senders at the same index.
remove(proposals, field, i) ==
    IF field = "updates"
    THEN [proposals EXCEPT !.updates = RemoveAt(@, i),
                           !.update_senders = RemoveAt(@, i)]
    ELSE [proposals EXCEPT ![field] = RemoveAt(@, i)]

\* ProposalBundle::retain_by_type::<T>(f): f is asked about every proposal
\* of the type in order; the first error is returned, otherwise the
\* proposals f answered true for are kept.
retain_by_type(proposals, field, f(_, _)) ==
    LET s == proposals[field]
        errs == {i \in 1..Len(s) : ~f(s[i], i).ok}
        first == CHOOSE i \in errs : \A j \in errs : i <= j
        kept == {i \in 1..Len(s) : f(s[i], i).val}
    IN  IF errs /= {} THEN Err(f(s[first], first).err)
        ELSE Ok([proposals EXCEPT ![field] = KeepIndexes(s, kept)])

\* ProposalBundle::group_context_extensions_proposal
group_context_extensions_proposal(proposals) ==
    IF proposals.group_context_extensions = <<>>
    THEN {}
    ELSE {proposals.group_context_extensions[1]}

\* ProposalBundle::clear_group_context_extensions
clear_group_context_extensions(proposals) ==
    [proposals EXCEPT !.group_context_extensions = <<>>]

(***************************************************************************)
(* The filters of the member commit pipeline                               *)
(***************************************************************************)
\* `let x = v;` followed by F(x): v is computed once and bound as a value.
Let(v, F(_)) == CHOOSE y \in {F(x) : x \in {v}} : TRUE

\* The `?` operator: continue with F on success, return the error otherwise.
AndThen(r, F(_)) == Let(r, LAMBDA x : IF x.ok THEN F(x.val) ELSE x)

\* One loop of filter_out_invalid_proposers, from index i down to the first
\* proposal: a proposal whose sender may not propose it is removed or fails
\* the commit, as apply_strategy decides.
RECURSIVE remove_invalid_proposers(_, _, _, _, _)
remove_invalid_proposers(strategy, proposals, field, proposal_type, i) ==
    IF i = 0 THEN Ok(proposals)
    ELSE
        LET p == proposals[field][i]
            res == proposer_can_propose(p.sender, proposal_type, is_by_reference(p))
            keep == apply_strategy(strategy, is_by_reference(p), res)
        IN  Let(keep,
                LAMBDA k :
                    IF ~k.ok THEN k
                    ELSE Let(IF k.val THEN proposals
                             ELSE remove(proposals, field, i),
                             LAMBDA rest :
                                 remove_invalid_proposers(
                                     strategy, rest, field, proposal_type, i - 1)))

\* A mutation of filter_out_invalid_proposers: the loop over the Updates is
\* left out.
filter_out_invalid_proposers_without_updates(strategy, proposals) ==
    LET loop(b, field, proposal_type) ==
            remove_invalid_proposers(strategy, b, field, proposal_type, Len(b[field]))
        adds == loop(proposals, "additions", "ADD")
        removes == AndThen(adds, LAMBDA b : loop(b, "removals", "REMOVE"))
        psks == AndThen(removes, LAMBDA b : loop(b, "psks", "PSK"))
        reinits == AndThen(psks, LAMBDA b : loop(b, "reinitializations", "RE_INIT"))
        external_inits ==
            AndThen(reinits,
                    LAMBDA b : loop(b, "external_initializations", "EXTERNAL_INIT"))
    IN  AndThen(external_inits,
                LAMBDA b : loop(b, "group_context_extensions",
                                "GROUP_CONTEXT_EXTENSIONS"))

\* filter_out_invalid_proposers
filter_out_invalid_proposers(strategy, proposals) ==
    LET loop(b, field, proposal_type) ==
            remove_invalid_proposers(strategy, b, field, proposal_type, Len(b[field]))
        adds == loop(proposals, "additions", "ADD")
        updates == AndThen(adds, LAMBDA b : loop(b, "updates", "UPDATE"))
        removes == AndThen(updates, LAMBDA b : loop(b, "removals", "REMOVE"))
        psks == AndThen(removes, LAMBDA b : loop(b, "psks", "PSK"))
        reinits == AndThen(psks, LAMBDA b : loop(b, "reinitializations", "RE_INIT"))
        external_inits ==
            AndThen(reinits,
                    LAMBDA b : loop(b, "external_initializations", "EXTERNAL_INIT"))
    IN  AndThen(external_inits,
                LAMBDA b : loop(b, "group_context_extensions",
                                "GROUP_CONTEXT_EXTENSIONS"))

\* A mutation of filter_out_update_for_committer: the check is skipped.
filter_out_update_for_committer_skipped(strategy, commit_sender, proposals) ==
    Ok(proposals)

\* filter_out_update_for_committer
filter_out_update_for_committer(strategy, commit_sender, proposals) ==
    retain_by_type(proposals, "updates",
        LAMBDA p, i :
            apply_strategy(strategy, is_by_reference(p),
                IF p.sender /= Member(commit_sender)
                THEN Ok(Unit) ELSE Err("InvalidCommitSelfUpdate")))

\* leaf_index_of_update_sender
leaf_index_of_update_sender(p) ==
    IF p.sender.kind = "Member" THEN Ok(p.sender.index)
    ELSE Err("InvalidProposalTypeForSender")

\* proposals.updates.iter().map(leaf_index_of_update_sender).collect()
collect_update_senders(proposals) ==
    LET s == proposals.updates
        errs == {i \in 1..Len(s) : ~leaf_index_of_update_sender(s[i]).ok}
        first == CHOOSE i \in errs : \A j \in errs : i <= j
    IN  IF errs /= {} THEN leaf_index_of_update_sender(s[first])
        ELSE Ok([proposals EXCEPT !.update_senders =
                    [i \in 1..Len(s) |-> leaf_index_of_update_sender(s[i]).val]])

\* A mutation of filter_out_removal_of_committer: the check is skipped.
filter_out_removal_of_committer_skipped(strategy, commit_sender, proposals) ==
    Ok(proposals)

\* filter_out_removal_of_committer
filter_out_removal_of_committer(strategy, commit_sender, proposals) ==
    retain_by_type(proposals, "removals",
        LAMBDA p, i :
            apply_strategy(strategy, is_by_reference(p),
                IF p.proposal.to_remove /= commit_sender
                THEN Ok(Unit) ELSE Err("CommitterSelfRemoval")))

\* filter_out_invalid_psks: the referenced key must exist in the storage.
filter_out_invalid_psks(strategy, proposals) ==
    retain_by_type(proposals, "psks",
        LAMBDA p, i :
            apply_strategy(strategy, is_by_reference(p),
                IF p.proposal.in_storage THEN Ok(Unit) ELSE Err("MissingRequiredPsk")))

\* The verdict of filter_out_invalid_group_extensions on one proposal: the
\* external-senders extension, if present, must decode and every identity
\* in it must be accepted by the identity provider.
verify_external_senders(p) ==
    CASE p.proposal.external_senders = "none" -> Ok(Unit)
      [] p.proposal.external_senders = "valid" -> Ok(Unit)
      [] p.proposal.external_senders = "rejected" -> Err("IdentityProviderError")
      [] p.proposal.external_senders = "malformed" -> Err("ExtensionError")

\* filter_out_invalid_group_extensions: the indices of the proposals to drop
\* are collected in order, the first error that may not be ignored is
\* returned, and the collected indices are removed from the last to the first.
filter_out_invalid_group_extensions(strategy, proposals) ==
    LET s == proposals.group_context_extensions
        keep(i) == apply_strategy(strategy, is_by_reference(s[i]),
                                  verify_external_senders(s[i]))
        errs == {i \in 1..Len(s) : ~keep(i).ok}
        first == CHOOSE i \in errs : \A j \in errs : i <= j
        bad_indices == {i \in 1..Len(s) : ~keep(i).val}
    IN  IF errs /= {} THEN Err(keep(first).err)
        ELSE Ok([proposals EXCEPT !.group_context_extensions =
                    KeepIndexes(s, (1..Len(s)) \ bad_indices)])

\* A mutation of filter_out_extra_group_context_extensions: the last
\* proposal is the one that passes.
filter_out_extra_group_context_extensions_keeps_last(strategy, proposals) ==
    retain_by_type(proposals, "group_context_extensions",
        LAMBDA p, i :
            apply_strategy(strategy, is_by_reference(p),
                IF i = Len(proposals.group_context_extensions) THEN Ok(Unit)
                ELSE Err("MoreThanOneGroupContextExtensionsProposal")))

\* A mutation of filter_out_extra_group_context_extensions: the check is
\* skipped.
filter_out_extra_group_context_extensions_skipped(strategy, proposals) ==
    Ok(proposals)

\* filter_out_extra_group_context_extensions: `found` is false only for the
\* first proposal the closure is called on.
filter_out_extra_group_context_extensions(strategy, proposals) ==
    retain_by_type(proposals, "group_context_extensions",
        LAMBDA p, i :
            apply_strategy(strategy, is_by_reference(p),
                IF i = 1 THEN Ok(Unit)
                ELSE Err("MoreThanOneGroupContextExtensionsProposal")))

\* A mutation of filter_out_invalid_reinit: only a higher version is accepted.
filter_out_invalid_reinit_strict(strategy, proposals, protocol_version) ==
    retain_by_type(proposals, "reinitializations",
        LAMBDA p, i :
            apply_strategy(strategy, is_by_reference(p),
                IF p.proposal.version > protocol_version
                THEN Ok(Unit) ELSE Err("InvalidProtocolVersionInReInit")))

\* filter_out_invalid_reinit
filter_out_invalid_reinit(strategy, proposals, protocol_version) ==
    retain_by_type(proposals, "reinitializations",
        LAMBDA p, i :
            apply_strategy(strategy, is_by_reference(p),
                IF p.proposal.version >= protocol_version
                THEN Ok(Unit) ELSE Err("InvalidProtocolVersionInReInit")))

\* A mutation of filter_out_reinit_if_other_proposals: the Adds and the
\* Updates, which the validation of the leaves may still remove, are not
\* counted as other proposals.
filter_out_reinit_if_other_proposals_not_counting_leaves(filter, proposals) ==
    LET has_other_types ==
            length(proposals) > Len(proposals.reinitializations)
                                + Len(proposals.additions)
                                + Len(proposals.updates)
        any_by_val ==
            \E i \in 1..Len(proposals.reinitializations) :
                is_by_value(proposals.reinitializations[i])
    IN  IF has_other_types
        THEN IF any_by_val \/ (proposals.reinitializations /= <<>> /\ ~filter)
             THEN Err("OtherProposalWithReInit")
             ELSE Ok([proposals EXCEPT !.reinitializations = <<>>])
        ELSE Ok(proposals)

\* A mutation of filter_out_reinit_if_other_proposals: when filtering, the
\* ReInits are dropped whatever their origin.
filter_out_reinit_if_other_proposals_always_drops(filter, proposals) ==
    LET has_other_types == length(proposals) > Len(proposals.reinitializations)
    IN  IF has_other_types
        THEN IF proposals.reinitializations /= <<>> /\ ~filter
             THEN Err("OtherProposalWithReInit")
             ELSE Ok([proposals EXCEPT !.reinitializations = <<>>])
        ELSE Ok(proposals)

\* filter_out_reinit_if_other_proposals
filter_out_reinit_if_other_proposals(filter, proposals) ==
    LET has_other_types == length(proposals) > Len(proposals.reinitializations)
        any_by_val ==
            \E i \in 1..Len(proposals.reinitializations) :
                is_by_value(proposals.reinitializations[i])
    IN  IF has_other_types
        THEN IF any_by_val \/ (proposals.reinitializations /= <<>> /\ ~filter)
             THEN Err("OtherProposalWithReInit")
             ELSE Ok([proposals EXCEPT !.reinitializations = <<>>])
        ELSE Ok(proposals)

\* A mutation of filter_out_external_init: the check is skipped.
filter_out_external_init_skipped(strategy, proposals) == Ok(proposals)

\* filter_out_external_init
filter_out_external_init(strategy, proposals) ==
    retain_by_type(proposals, "external_initializations",
        LAMBDA p, i :
            apply_strategy(strategy, is_by_reference(p),
                           Err("InvalidProposalTypeForSender")))

\* TreeKemPublic::can_support_proposal: every leaf of the tree advertises the
\* proposal type.
can_support_proposal(tree, proposal_type) ==
    \A k \in 1..Len(tree) :
        tree[k] /= Blank => proposal_type \in tree[k].capabilities

\* ProposalBundle::custom_proposal_types
custom_proposal_types(proposals) ==
    {proposals.custom_proposals[i].proposal.proposal_type :
        i \in 1..Len(proposals.custom_proposals)}

\* ProposalBundle::retain_custom(f)
retain_custom(proposals, f(_, _)) ==
    retain_by_type(proposals, "custom_proposals", f)

\* A mutation of filter_out_unsupported_custom_proposals: every custom type
\* of the bundle counts as supported.
filter_out_unsupported_custom_proposals_all_supported(proposals, tree, strategy) ==
    Ok(proposals)

\* filter_out_unsupported_custom_proposals
filter_out_unsupported_custom_proposals(proposals, tree, strategy) ==
    LET supported_types ==
            {t \in custom_proposal_types(proposals) : can_support_proposal(tree, t)}
    IN  retain_custom(proposals,
            LAMBDA p, i :
                apply_strategy(strategy, is_by_reference(p),
                    IF p.proposal.proposal_type \in supported_types
                    THEN Ok(Unit)
                    ELSE Err(<<"UnsupportedCustomProposal",
                               p.proposal.proposal_type>>)))

(***************************************************************************)
(* Leaf validation and the tree edit                                       *)
(***************************************************************************)
\* The applier: &self of ProposalApplier.
ProposalApplier(tree, extensions, version, id) ==
    [original_tree |-> tree, original_group_extensions |-> extensions,
     protocol_version |-> version, group_id |-> id]

\* What a method of the applier leaves behind: the applier and its result.
Return(self, r) == [self |-> self, result |-> r]

\* The Update loop of validate_new_nodes, from index i down to the first
\* Update.  The lookup of the sender's current leaf returns its error
\* directly; the three checks go through apply_strategy.
RECURSIVE validate_updates(_, _, _, _, _)
validate_updates(self, strategy, proposals, group_extensions_in_use, i) ==
    IF i = 0 THEN Ok(proposals)
    ELSE IF i > Len(proposals.update_senders)
    THEN Err("InternalProposalFilterError")
    ELSE
        LET sender_index == proposals.update_senders[i]
            leaf == proposals.updates[i].proposal.leaf_node
            valid == check_if_valid(leaf)
            extensions_are_supported ==
                leaf_supports_extensions(leaf, group_extensions_in_use)
            old_leaf == get_leaf_node(self.original_tree, sender_index)
            successor ==
                valid_successor(old_leaf.val.signing_identity, leaf.signing_identity)
            successor_result ==
                IF ~successor.ok THEN Err("IdentityProviderError")
                ELSE IF successor.val THEN Ok(Unit) ELSE Err("InvalidSuccessor")
            res == And(And(valid, extensions_are_supported), successor_result)
            keep == apply_strategy(strategy,
                                   is_by_reference(proposals.updates[i]), res)
        IN  IF ~old_leaf.ok THEN Err(old_leaf.err)
            ELSE Let(keep,
                     LAMBDA k :
                         IF ~k.ok THEN k
                         ELSE Let(IF k.val THEN proposals
                                  ELSE remove(proposals, "updates", i),
                                  LAMBDA rest :
                                      validate_updates(
                                          self, strategy, rest,
                                          group_extensions_in_use, i - 1)))

\* A mutation of validate_adds: the key package properties are not checked.
validate_adds_without_properties(self, strategy, proposals, group_extensions_in_use) ==
    LET s == proposals.additions
        res(i) ==
            LET key_package == s[i].proposal.key_package
            IN  And(check_if_valid(key_package.leaf_node),
                    leaf_supports_extensions(key_package.leaf_node,
                                             group_extensions_in_use))
        keep(i) == apply_strategy(strategy, is_by_reference(s[i]), res(i))
        errs == {i \in 1..Len(s) : ~keep(i).ok}
        first == CHOOSE i \in errs : \A j \in errs : i <= j
        bad_indices == {i \in 1..Len(s) : ~keep(i).val}
    IN  IF errs /= {} THEN Err(keep(first).err)
        ELSE Ok([proposals EXCEPT !.additions =
                    KeepIndexes(s, (1..Len(s)) \ bad_indices)])

\* A mutation of validate_adds: the collected indices are removed in
\* ascending order, so that each removal shifts the proposals behind it.
validate_adds_forward_removal(self, strategy, proposals, group_extensions_in_use) ==
    LET s == proposals.additions
        res(i) ==
            LET key_package == s[i].proposal.key_package
            IN  And(And(check_if_valid(key_package.leaf_node),
                        leaf_supports_extensions(key_package.leaf_node,
                                                 group_extensions_in_use)),
                    validate_key_package_properties(key_package))
        keep(i) == apply_strategy(strategy, is_by_reference(s[i]), res(i))
        errs == {i \in 1..Len(s) : ~keep(i).ok}
        first == CHOOSE i \in errs : \A j \in errs : i <= j
        bad_indices == {i \in 1..Len(s) : ~keep(i).val}
        shifted == {i + Cardinality({j \in bad_indices : j < i}) :
                        i \in bad_indices}
    IN  IF errs /= {} THEN Err(keep(first).err)
        ELSE Ok([proposals EXCEPT !.additions =
                    KeepIndexes(s, (1..Len(s)) \ shifted)])

\* The Add loop of validate_new_nodes: bad indices are collected in order and
\* removed afterwards.
validate_adds(self, strategy, proposals, group_extensions_in_use) ==
    LET s == proposals.additions
        res(i) ==
            LET key_package == s[i].proposal.key_package
                valid == check_if_valid(key_package.leaf_node)
                extensions_are_supported ==
                    leaf_supports_extensions(key_package.leaf_node,
                                             group_extensions_in_use)
            IN  And(And(valid, extensions_are_supported),
                    validate_key_package_properties(key_package))
        keep(i) == apply_strategy(strategy, is_by_reference(s[i]), res(i))
        errs == {i \in 1..Len(s) : ~keep(i).ok}
        first == CHOOSE i \in errs : \A j \in errs : i <= j
        bad_indices == {i \in 1..Len(s) : ~keep(i).val}
    IN  IF errs /= {} THEN Err(keep(first).err)
        ELSE Ok([proposals EXCEPT !.additions =
                    KeepIndexes(s, (1..Len(s)) \ bad_indices)])

\* validate_new_nodes
validate_new_nodes(self, strategy, proposals, group_extensions_in_use) ==
    LET capabilities == get_as_required_capabilities(group_extensions_in_use)
        updates == validate_updates(self, strategy, proposals,
                                    group_extensions_in_use, Len(proposals.updates))
    IN  IF ~capabilities.ok THEN Err(capabilities.err)
        ELSE AndThen(updates,
                     LAMBDA b : validate_adds(self, strategy, b,
                                              group_extensions_in_use))

\* Add of TreeKemPublic::batch_edit: the leftmost blank leaf, or a new leaf
\* at the right edge.
add_leaf(tree, leaf) ==
    LET blanks == {k \in 1..Len(tree) : tree[k] = Blank}
        slot == CHOOSE k \in blanks : \A j \in blanks : k <= j
    IN  IF blanks /= {} THEN [tree |-> [tree EXCEPT ![slot] = leaf], index |-> slot - 1]
        ELSE [tree |-> Append(tree, leaf), index |-> Len(tree)]

RECURSIVE add_leaves(_, _, _, _)
add_leaves(tree, additions, i, added) ==
    IF i > Len(additions) THEN [tree |-> tree, added |-> added]
    ELSE Let(add_leaf(tree, additions[i].proposal.key_package.leaf_node),
             LAMBDA r : add_leaves(r.tree, additions, i + 1,
                                   Append(added, r.index)))

\* TreeKemPublic::batch_edit: Updates, then Removes, then Adds; removing a
\* leaf that is blank or outside the tree is a conflict and fails the edit.
batch_edit(tree, applied_proposals) ==
    LET updates == applied_proposals.updates
        senders == applied_proposals.update_senders
        updates_of(k) == {i \in 1..Len(updates) : senders[i] = k - 1}
        last(k) == CHOOSE i \in updates_of(k) : \A j \in updates_of(k) : j <= i
        updated == [k \in 1..Len(tree) |->
                       IF updates_of(k) = {} THEN tree[k]
                       ELSE updates[last(k)].proposal.leaf_node]
        removals == applied_proposals.removals
        target(i) == removals[i].proposal.to_remove + 1
        conflict ==
            \E i \in 1..Len(removals) :
                \/ target(i) \notin DOMAIN updated
                \/ updated[target(i)] = Blank
                \/ \E j \in 1..Len(removals) : j /= i /\ target(j) = target(i)
        removed == [k \in 1..Len(tree) |->
                       IF \E i \in 1..Len(removals) : target(i) = k
                       THEN Blank ELSE updated[k]]
    IN  IF conflict THEN Err("RemovingNonExistingMember")
        ELSE Let(removed,
                 LAMBDA t : Ok(add_leaves(t, applied_proposals.additions, 1, <<>>)))

ApplyProposalsOutput(applied_proposals, new_tree, added) ==
    [applied_proposals |-> applied_proposals, new_tree |-> new_tree,
     indexes_of_added_kpkgs |-> added, external_init_index |-> "None"]

\* A mutation of apply_tree_changes: the batch edit is made on the applier's
\* own tree instead of on a clone.
apply_tree_changes_in_place(self, strategy, proposals, group_extensions_in_use) ==
    Let(validate_new_nodes(self, strategy, proposals, group_extensions_in_use),
        LAMBDA applied :
            IF ~applied.ok THEN Return(self, applied)
            ELSE Let(batch_edit(self.original_tree, applied.val),
                     LAMBDA edit :
                         IF ~edit.ok THEN Return(self, edit)
                         ELSE Return([self EXCEPT !.original_tree = edit.val.tree],
                                     Ok(ApplyProposalsOutput(
                                            applied.val, edit.val.tree,
                                            edit.val.added)))))

\* apply_tree_changes: the new leaves are validated, then the batch edit is
\* made on a clone of the original tree.
apply_tree_changes(self, strategy, proposals, group_extensions_in_use) ==
    LET new_tree == self.original_tree
    IN  Let(validate_new_nodes(self, strategy, proposals, group_extensions_in_use),
            LAMBDA applied :
                IF ~applied.ok THEN Return(self, applied)
                ELSE Let(batch_edit(new_tree, applied.val),
                         LAMBDA edit :
                             IF ~edit.ok THEN Return(self, edit)
                             ELSE Return(self,
                                         Ok(ApplyProposalsOutput(
                                                applied.val, edit.val.tree,
                                                edit.val.added)))))

\* apply_proposals_with_new_capabilities: the tree changes are applied with
\* the extension list of the GroupContextExtensions proposal in use.
apply_proposals_with_new_capabilities(self, strategy, proposals, extensions_proposal) ==
    apply_tree_changes(self, strategy, proposals, extensions_proposal.proposal)

\* A mutation of apply_proposal_changes: the new leaves are validated
\* against the original extensions of the group whatever becomes of the
\* GroupContextExtensions proposal.
apply_proposal_changes_original_extensions(self, strategy, proposals) ==
    LET found == group_context_extensions_proposal(proposals)
        p == CHOOSE q \in found : TRUE
        capabilities == get_as_required_capabilities(p.proposal)
    IN  IF found = {}
        THEN apply_tree_changes(self, strategy,
                                clear_group_context_extensions(proposals),
                                self.original_group_extensions)
        ELSE IF capabilities.ok
        THEN apply_tree_changes(self, strategy, proposals,
                                self.original_group_extensions)
        ELSE IF ignore(strategy, is_by_reference(p))
        THEN apply_tree_changes(self, strategy,
                                clear_group_context_extensions(proposals),
                                self.original_group_extensions)
        ELSE Return(self, Err(capabilities.err))

\* apply_proposal_changes
apply_proposal_changes(self, strategy, proposals) ==
    LET found == group_context_extensions_proposal(proposals)
        p == CHOOSE q \in found : TRUE
        capabilities == get_as_required_capabilities(p.proposal)
    IN  IF found = {}
        THEN apply_tree_changes(self, strategy,
                                clear_group_context_extensions(proposals),
                                self.original_group_extensions)
        ELSE IF capabilities.ok
        THEN apply_proposals_with_new_capabilities(self, strategy, proposals, p)
        ELSE IF ignore(strategy, is_by_reference(p))
        THEN apply_tree_changes(self, strategy,
                                clear_group_context_extensions(proposals),
                                self.original_group_extensions)
        ELSE Return(self, Err(capabilities.err))

\* A mutation of apply_proposals_from_member: the PreSharedKey proposals are
\* checked before the Removes of the committer.
apply_proposals_from_member_psks_first(self, strategy, commit_sender, proposals) ==
    LET authorised == filter_out_invalid_proposers(strategy, proposals)
        no_self_update ==
            AndThen(authorised,
                    LAMBDA b : filter_out_update_for_committer(strategy, commit_sender, b))
        with_senders == AndThen(no_self_update, LAMBDA b : collect_update_senders(b))
        psks == AndThen(with_senders,
                        LAMBDA b : filter_out_invalid_psks(strategy, b))
        no_self_removal ==
            AndThen(psks,
                    LAMBDA b : filter_out_removal_of_committer(strategy, commit_sender, b))
        group_extensions ==
            AndThen(no_self_removal,
                    LAMBDA b : filter_out_invalid_group_extensions(strategy, b))
        one_group_extensions ==
            AndThen(group_extensions,
                    LAMBDA b : filter_out_extra_group_context_extensions(strategy, b))
        reinit ==
            AndThen(one_group_extensions,
                    LAMBDA b : filter_out_invalid_reinit(strategy, b,
                                                         self.protocol_version))
        reinit_alone ==
            AndThen(reinit,
                    LAMBDA b : filter_out_reinit_if_other_proposals(
                                   is_ignore(strategy), b))
        no_external_init ==
            AndThen(reinit_alone, LAMBDA b : filter_out_external_init(strategy, b))
    IN  Let(no_external_init,
            LAMBDA filtered :
                IF ~filtered.ok THEN Return(self, filtered)
                ELSE apply_proposal_changes(self, strategy, filtered.val))

\* apply_proposals_from_member
apply_proposals_from_member(self, strategy, commit_sender, proposals) ==
    LET authorised == filter_out_invalid_proposers(strategy, proposals)
        no_self_update ==
            AndThen(authorised,
                    LAMBDA b : filter_out_update_for_committer(strategy, commit_sender, b))
        with_senders == AndThen(no_self_update, LAMBDA b : collect_update_senders(b))
        no_self_removal ==
            AndThen(with_senders,
                    LAMBDA b : filter_out_removal_of_committer(strategy, commit_sender, b))
        psks == AndThen(no_self_removal,
                        LAMBDA b : filter_out_invalid_psks(strategy, b))
        group_extensions ==
            AndThen(psks, LAMBDA b : filter_out_invalid_group_extensions(strategy, b))
        one_group_extensions ==
            AndThen(group_extensions,
                    LAMBDA b : filter_out_extra_group_context_extensions(strategy, b))
        reinit ==
            AndThen(one_group_extensions,
                    LAMBDA b : filter_out_invalid_reinit(strategy, b,
                                                         self.protocol_version))
        reinit_alone ==
            AndThen(reinit,
                    LAMBDA b : filter_out_reinit_if_other_proposals(
                                   is_ignore(strategy), b))
        no_external_init ==
            AndThen(reinit_alone, LAMBDA b : filter_out_external_init(strategy, b))
    IN  Let(no_external_init,
            LAMBDA filtered :
                IF ~filtered.ok THEN Return(self, filtered)
                ELSE apply_proposal_changes(self, strategy, filtered.val))

(***************************************************************************)
(* Transcript hashes (aws-mls/src/group/transcript_hash.rs)                *)
(***************************************************************************)
\* to_be_bytes of an unsigned integer of `width` bytes: the `width` low
\* bytes of x, most significant first.
RECURSIVE to_be_bytes(_, _)
to_be_bytes(x, width) ==
    IF width = 0 THEN <<>>
    ELSE Append(to_be_bytes(x \div 256, width - 1), x % 256)

\* A mutation of MlsEncode for the integers: the bytes are written least
\* significant first.
mls_encode_uint_little_endian(x, width) ==
    [i \in 1..width |-> to_be_bytes(x, width)[width + 1 - i]]

\* MlsEncode for u8, u16, u32, u64: the big-endian bytes are written.
mls_encode_uint(x, width) == to_be_bytes(x, width)

\* The variable-length length prefix of a byte vector (lengths below 64
\* take one byte, lengths below 16384 two bytes with the top bits 01).
mls_encode_length(n) ==
    IF n < 64 THEN <<n>> ELSE <<64 + (n \div 256), n % 256>>

\* aws_mls_codec::byte_vec: the length prefix, then the bytes.
byte_vec_encode(bytes) == mls_encode_length(Len(bytes)) \o bytes

\* WireFormat as its u16.
WireFormat == [PublicMessage |-> 1, PrivateMessage |-> 2]

\* FramedContent: the epoch, the content type and the encoded content.
FramedContent(epoch, content_type, body) ==
    [epoch |-> epoch, content_type |-> content_type, body |-> body]

\* MlsEncode for FramedContent.
FramedContent_encode(content) ==
    mls_encode_uint(content.epoch, 8) \o mls_encode_uint(content.content_type, 1)
    \o byte_vec_encode(content.body)

\* Option<T>: None is the empty sequence, Some(t) the sequence of t alone.
None == <<>>

Some(t) == <<t>>

\* AuthenticatedContent: the wire format, the framed content and the auth
\* data (the signature and the optional tags).
AuthenticatedContent(wire_format, content, signature, confirmation_tag, membership_tag) ==
    [wire_format |-> wire_format, content |-> content,
     auth |-> [signature |-> signature, confirmation_tag |-> confirmation_tag,
               membership_tag |-> membership_tag]]

\* MlsEncode for the auth data of an AuthenticatedContent.
FramedContentAuthData_encode(auth) ==
    byte_vec_encode(auth.signature)
    \o (IF auth.confirmation_tag = None THEN <<>>
        ELSE byte_vec_encode(auth.confirmation_tag[1]))
    \o (IF auth.membership_tag = None THEN <<>>
        ELSE byte_vec_encode(auth.membership_tag[1]))

\* The digest the provider computes: a 16-bit polynomial checksum of the
\* input stands for the hash function of the cipher suite.
RECURSIVE digest(_, _)
digest(input, acc) ==
    IF input = <<>> THEN acc
    ELSE digest(Tail(input), (acc * 31 + Head(input) + 1) % 65521)

\* CipherSuiteProvider::hash: a provider may fail.
hash(cipher_suite_provider, input) ==
    IF cipher_suite_provider = "failing" THEN Err("HashError")
    ELSE Ok(to_be_bytes(digest(input, 7), 2))

\* ConfirmedTranscriptHashInput { wire_format, content, signature }
\* .mls_encode_to_vec()
ConfirmedTranscriptHashInput_encode(input) ==
    Ok(mls_encode_uint(input.wire_format, 2)
       \o FramedContent_encode(input.content)
       \o byte_vec_encode(input.signature))

\* A mutation of ConfirmedTranscriptHash::create: the whole auth data of the
\* content is hashed.
ConfirmedTranscriptHash_create_with_auth(cipher_suite_provider, interim_transcript_hash, content) ==
    LET hashed == hash(cipher_suite_provider,
                       interim_transcript_hash
                       \o mls_encode_uint(content.wire_format, 2)
                       \o FramedContent_encode(content.content)
                       \o FramedContentAuthData_encode(content.auth))
    IN  IF hashed.ok THEN hashed ELSE Err("CryptoProviderError")

\* ConfirmedTranscriptHash::create
ConfirmedTranscriptHash_create(cipher_suite_provider, interim_transcript_hash, content) ==
    LET input == [wire_format |-> content.wire_format,
                  content |-> content.content,
                  signature |-> content.auth.signature]
        encoded == ConfirmedTranscriptHashInput_encode(input)
        hash_input == interim_transcript_hash \o encoded.val
        hashed == hash(cipher_suite_provider, hash_input)
    IN  IF ~encoded.ok THEN encoded
        ELSE IF hashed.ok THEN hashed ELSE Err("CryptoProviderError")

\* A mutation of InterimTranscriptHash::create: the confirmation tag is left
\* out of the hash input.
InterimTranscriptHash_create_without_tag(cipher_suite_provider, confirmed, confirmation_tag) ==
    Let(hash(cipher_suite_provider, confirmed),
        LAMBDA hashed : IF hashed.ok THEN hashed ELSE Err("CryptoProviderError"))

\* InterimTranscriptHash::create
InterimTranscriptHash_create(cipher_suite_provider, confirmed, confirmation_tag) ==
    LET input == byte_vec_encode(confirmation_tag)
    IN  Let(hash(cipher_suite_provider, confirmed \o input),
            LAMBDA hashed :
                IF hashed.ok THEN hashed ELSE Err("CryptoProviderError"))

\* transcript_hashes: the confirmed hash of the content on the previous
\* interim hash, then the interim hash of the confirmed hash and the
\* confirmation tag of the content.
transcript_hashes(cipher_suite_provider, prev_interim_transcript_hash, content) ==
    AndThen(ConfirmedTranscriptHash_create(cipher_suite_provider,
                                           prev_interim_transcript_hash, content),
        LAMBDA confirmed_transcript_hash :
            IF content.auth.confirmation_tag = None
            THEN Err("InvalidConfirmationTag")
            ELSE AndThen(InterimTranscriptHash_create(
                             cipher_suite_provider, confirmed_transcript_hash,
                             content.auth.confirmation_tag[1]),
                     LAMBDA interim_transcript_hash :
                         Ok([interim |-> interim_transcript_hash,
                             confirmed |-> confirmed_transcript_hash])))

\* CipherSuiteProvider::mac: a keyed checksum of the data stands for the
\* MAC of the cipher suite.
mac(cipher_suite_provider, key, data) ==
    IF cipher_suite_provider = "failing" THEN Err("MacError")
    ELSE Ok(to_be_bytes(digest(byte_vec_encode(key) \o data, 13), 2))

\* ConfirmationTag::create
ConfirmationTag_create(confirmation_key, confirmed_transcript_hash, cipher_suite_provider) ==
    Let(mac(cipher_suite_provider, confirmation_key, confirmed_transcript_hash),
        LAMBDA m : IF m.ok THEN m ELSE Err("CryptoProviderError"))

\* A mutation of ConfirmationTag::matches: the tag is recomputed over the
\* confirmation key alone.
ConfirmationTag_matches_key_only(tag, confirmation_key, confirmed_transcript_hash, cipher_suite_provider) ==
    AndThen(ConfirmationTag_create(confirmation_key, <<>>, cipher_suite_provider),
            LAMBDA t : Ok(t = tag))

\* ConfirmationTag::matches: the tag is recomputed and compared.
ConfirmationTag_matches(tag, confirmation_key, confirmed_transcript_hash, cipher_suite_provider) ==
    AndThen(ConfirmationTag_create(confirmation_key, confirmed_transcript_hash,
                                   cipher_suite_provider),
            LAMBDA t : Ok(t = tag))

(***************************************************************************)
(* Membership tags (src/group/membership_tag.rs)                           *)
(***************************************************************************)
\* WireFormat::Plain, the wire format of a public message.
Plain == WireFormat.PublicMessage

\* GroupContext: the cipher suite, whose HMAC works or fails, and the epoch.
GroupContext(cipher_suite, epoch) == [cipher_suite |-> cipher_suite, epoch |-> epoch]

\* Serialize for GroupContext.
GroupContext_serialize(group_context) ==
    mls_encode_uint(IF group_context.cipher_suite = "working" THEN 1 ELSE 2, 2)
    \o mls_encode_uint(group_context.epoch, 8)

\* MLSContentTBS::from_authenticated_content(auth_content, Some(group_context))
MLSContentTBS_from_authenticated_content(auth_content, group_context) ==
    [wire_format |-> auth_content.wire_format, content |-> auth_content.content,
     context |-> group_context]

\* Serialize for MLSContentTBS.
MLSContentTBS_serialize(content_tbs) ==
    mls_encode_uint(content_tbs.wire_format, 2)
    \o FramedContent_encode(content_tbs.content)
    \o GroupContext_serialize(content_tbs.context)

\* MLSContentTBM::from_authenticated_content
MLSContentTBM_from_authenticated_content(auth_content, group_context) ==
    [content_tbs |-> MLSContentTBS_from_authenticated_content(auth_content,
                                                              group_context),
     auth |-> auth_content.auth]

\* Serialize for MLSContentTBM: the content to be signed, then the auth data.
MLSContentTBM_serialize(tbm) ==
    MLSContentTBS_serialize(tbm.content_tbs) \o FramedContentAuthData_encode(tbm.auth)

\* Key::new and Key::generate_tag with the hash function of the cipher suite.
generate_tag(membership_key, cipher_suite, data) ==
    Let(mac(cipher_suite, membership_key, data),
        LAMBDA m : IF m.ok THEN m ELSE Err(<<"HMacError">>))

\* A mutation of MembershipTag::create: the wire format is not looked at.
MembershipTag_create_any_wire_format(authenticated_content, group_context, membership_key) ==
    generate_tag(membership_key, group_context.cipher_suite,
                 MLSContentTBM_serialize(
                     MLSContentTBM_from_authenticated_content(
                         authenticated_content, group_context)))

\* MembershipTag::create
MembershipTag_create(authenticated_content, group_context, membership_key) ==
    IF authenticated_content.wire_format /= Plain
    THEN Err(<<"NonPlainWireFormat", authenticated_content.wire_format>>)
    ELSE LET plaintext_tbm ==
                 MLSContentTBM_from_authenticated_content(authenticated_content,
                                                          group_context)
             serialized_tbm == MLSContentTBM_serialize(plaintext_tbm)
         IN  generate_tag(membership_key, group_context.cipher_suite,
                          serialized_tbm)

(***************************************************************************)
(* Epochs: the receiver of commits                                         *)
(***************************************************************************)
\* A commit made by a sender against the epoch it was in; `valid` says
\* whether its signature, proposals and confirmation tag verify.
Commit_new(epoch, sender, valid) ==
    [epoch |-> epoch, sender |-> sender, valid |-> valid]

\* The state of a group at one endpoint: the epoch and the commits that
\* were accepted, oldest first.
GroupState(epoch, accepted) == [epoch |-> epoch, accepted |-> accepted]

\* A mutation of process_incoming: the epoch of the commit is not compared
\* with the epoch of the group.
process_incoming_any_epoch(state, commit) ==
    IF ~commit.valid
    THEN [state |-> state, result |-> Err("SignatureInvalid")]
    ELSE [state |-> GroupState(state.epoch + 1, Append(state.accepted, commit)),
          result |-> Ok(state.epoch + 1)]

\* process_incoming for a commit: a commit made against another epoch than
\* the current one is stale; a commit that does not verify is refused; an
\* accepted commit produces the successor epoch.  On an error the state is
\* the one before the call.
process_incoming(state, commit) ==
    IF commit.epoch /= state.epoch
    THEN [state |-> state, result |-> Err("StaleEpoch")]
    ELSE IF ~commit.valid
    THEN [state |-> state, result |-> Err("SignatureInvalid")]
    ELSE [state |-> GroupState(state.epoch + 1, Append(state.accepted, commit)),
          result |-> Ok(state.epoch + 1)]

(***************************************************************************)
(* Decoding (aws-mls-codec/src/stdint.rs, identity/credential.rs)          *)
(***************************************************************************)
\* What a decoder leaves behind: its result and the reader (&mut &[u8]).
Decoded(r, reader) == [result |-> r, reader |-> reader]

\* The `?` operator on a decoder: continue with F on the value and the
\* advanced reader, return the error and the reader as it is otherwise.
DecodeThen(d, F(_, _)) ==
    Let(d, LAMBDA x : IF x.result.ok THEN F(x.result.val, x.reader) ELSE x)

\* The bytes of a reader after its first n.
Advance(reader, n) == SubSeq(reader, n + 1, Len(reader))

\* MlsDecode for [u8; N]: the first N bytes, or UnexpectedEOF with the
\* reader left as it was.
array_decode(reader, n) ==
    IF Len(reader) < n THEN Decoded(Err("UnexpectedEOF"), reader)
    ELSE Decoded(Ok(SubSeq(reader, 1, n)), Advance(reader, n))

\* from_be_bytes of an unsigned integer type.
RECURSIVE from_be_bytes(_)
from_be_bytes(bytes) ==
    IF bytes = <<>> THEN 0
    ELSE from_be_bytes(SubSeq(bytes, 1, Len(bytes) - 1)) * 256 + bytes[Len(bytes)]

\* MlsSize for u8, u16, u32, u64: size_of of the type.
mls_encoded_len_uint(width) == width

\* MlsDecode for u8, u16, u32, u64: the array of the type's size is decoded
\* and read as a big-endian integer.
mls_decode_uint(reader, width) ==
    Let(array_decode(reader, width),
        LAMBDA a : IF a.result.ok
                   THEN Decoded(Ok(from_be_bytes(a.result.val)), a.reader)
                   ELSE a)

\* The variable-length length prefix: the two high bits of the first byte
\* select the 1, 2, 4 or 8 byte form.
mls_decode_length(reader) ==
    IF reader = <<>> THEN Decoded(Err("UnexpectedEOF"), reader)
    ELSE LET count == 2 ^ (reader[1] \div 64)
         IN  IF Len(reader) < count THEN Decoded(Err("UnexpectedEOF"), reader)
             ELSE Decoded(Ok(from_be_bytes(<<reader[1] % 64>>
                                           \o SubSeq(reader, 2, count))),
                          Advance(reader, count))

\* aws_mls_codec::byte_vec::mls_decode: the length prefix, then that many
\* bytes; on an error the reader is left as it was.
byte_vec_decode(reader) ==
    Let(mls_decode_length(reader),
        LAMBDA n :
            IF ~n.result.ok THEN n
            ELSE IF Len(n.reader) < n.result.val
            THEN Decoded(Err("UnexpectedEOF"), reader)
            ELSE Decoded(Ok(SubSeq(n.reader, 1, n.result.val)),
                         Advance(n.reader, n.result.val)))

\* CredentialType constants.
CredentialType == [BASIC |-> 1, X509 |-> 2]

\* Credential::Basic(BasicCredential { identifier })
Basic(identifier) == [kind |-> "Basic", identifier |-> identifier]

\* Credential::X509(CertificateChain): the DER certificates, leaf first.
X509(chain) == [kind |-> "X509", chain |-> chain]

\* CustomCredential::new
CustomCredential_new(credential_type, data) ==
    [credential_type |-> credential_type, data |-> data]

\* Credential::Custom(CustomCredential)
Custom(c) ==
    [kind |-> "Custom", credential_type |-> c.credential_type, data |-> c.data]

\* Credential::credential_type
credential_type(c) ==
    CASE c.kind = "Basic" -> CredentialType.BASIC
      [] c.kind = "X509" -> CredentialType.X509
      [] c.kind = "Custom" -> c.credential_type

\* MlsEncode for BasicCredential: the identifier as a byte vector.
BasicCredential_encode(c) == byte_vec_encode(c.identifier)

\* MlsDecode for BasicCredential.
BasicCredential_decode(reader) ==
    DecodeThen(byte_vec_decode(reader),
               LAMBDA identifier, rest : Decoded(Ok(Basic(identifier)), rest))

\* MlsEncode for CertificateChain: the length of the encoded certificates,
\* then each certificate as a byte vector.
RECURSIVE certificates_encode(_)
certificates_encode(chain) ==
    IF chain = <<>> THEN <<>>
    ELSE byte_vec_encode(Head(chain)) \o certificates_encode(Tail(chain))

CertificateChain_encode(c) == byte_vec_encode(certificates_encode(c.chain))

\* The certificates of an encoded chain, read until its bytes are used up.
RECURSIVE certificates_decode(_, _)
certificates_decode(bytes, chain) ==
    IF bytes = <<>> THEN Ok(chain)
    ELSE Let(byte_vec_decode(bytes),
             LAMBDA d : IF ~d.result.ok THEN d.result
                        ELSE certificates_decode(d.reader,
                                                 Append(chain, d.result.val)))

\* MlsDecode for CertificateChain.
CertificateChain_decode(reader) ==
    DecodeThen(byte_vec_decode(reader),
               LAMBDA bytes, rest :
                   Let(certificates_decode(bytes, <<>>),
                       LAMBDA chain :
                           IF chain.ok THEN Decoded(Ok(X509(chain.val)), rest)
                           ELSE Decoded(chain, reader)))

\* MlsSize for Credential
Credential_mls_encoded_len(c) ==
    LET inner_len ==
            CASE c.kind = "Basic" -> Len(BasicCredential_encode(c))
              [] c.kind = "X509" -> Len(CertificateChain_encode(c))
              [] c.kind = "Custom" -> Len(byte_vec_encode(c.data))
    IN  mls_encoded_len_uint(2) + inner_len

\* MlsEncode for Credential: the credential type, then the body.
Credential_encode(c) ==
    mls_encode_uint(credential_type(c), 2)
    \o (CASE c.kind = "Basic" -> BasicCredential_encode(c)
          [] c.kind = "X509" -> CertificateChain_encode(c)
          [] c.kind = "Custom" -> byte_vec_encode(c.data))

\* A mutation of MlsDecode for Credential: the type of a basic credential
\* is not recognised.
Credential_decode_without_basic(reader, x509) ==
    DecodeThen(mls_decode_uint(reader, 2),
        LAMBDA type, body :
            IF x509 /\ type = CredentialType.X509
            THEN CertificateChain_decode(body)
            ELSE DecodeThen(byte_vec_decode(body),
                     LAMBDA data, rest :
                         Decoded(Ok(Custom(CustomCredential_new(type, data))),
                                 rest)))

\* MlsDecode for Credential, in a build with or without the x509 feature:
\* the credential type is read, then the body the type selects.
Credential_decode(reader, x509) ==
    DecodeThen(mls_decode_uint(reader, 2),
        LAMBDA type, body :
            IF type = CredentialType.BASIC
            THEN BasicCredential_decode(body)
            ELSE IF x509 /\ type = CredentialType.X509
            THEN CertificateChain_decode(body)
            ELSE DecodeThen(byte_vec_decode(body),
                     LAMBDA data, rest :
                         Decoded(Ok(Custom(CustomCredential_new(type, data))),
                                 rest)))

(***************************************************************************)
(* Vectors (src/tls/vector.rs)                                             *)
(***************************************************************************)
\* S::deserialize for an element that encodes to item_size bytes: the
\* bytes are read from the reader; an element of no bytes reads nothing.
item_deserialize(reader, item_size) == array_decode(reader, item_size)

\* S::serialized_len of a deserialized element.
item_serialized_len(item) == Len(item)

\* S::serialize of an element: its bytes are written and counted.
item_serialize(item, writer) ==
    [result |-> Ok(Len(item)), writer |-> writer \o item]

\* The sum of S::serialized_len over the elements.
RECURSIVE sum_serialized_len(_)
sum_serialized_len(v) ==
    IF v = <<>> THEN 0
    ELSE item_serialized_len(Head(v)) + sum_serialized_len(Tail(v))

\* Vector::tls_serialized_len: the size of the length prefix and of the
\* elements.
tls_serialized_len(v, length_size) == length_size + sum_serialized_len(v)

\* I::try_from(usize) for an unsigned integer of length_size bytes.
try_from_usize(len, length_size) ==
    IF len < 256 ^ length_size THEN Ok(len) ELSE Err("InvalidVectorLength")

\* The try_fold of tls_serialize from element i on: each element is
\* serialized to the writer and its size added to the count.
RECURSIVE try_fold_serialize(_, _, _, _)
try_fold_serialize(v, i, acc, writer) ==
    IF i > Len(v) THEN [result |-> Ok(acc), writer |-> writer]
    ELSE Let(item_serialize(v[i], writer),
             LAMBDA written :
                 IF ~written.result.ok THEN written
                 ELSE try_fold_serialize(v, i + 1, acc + written.result.val,
                                         written.writer))

\* Vector::tls_serialize: the byte length of the elements is converted to
\* the type of the prefix, the prefix is written, then the elements.
tls_serialize(v, writer, length_size) ==
    LET len == tls_serialized_len(v, length_size) - length_size
        prefix == try_from_usize(len, length_size)
    IN  IF ~prefix.ok THEN [result |-> prefix, writer |-> writer]
        ELSE try_fold_serialize(v, 1, length_size,
                                writer \o mls_encode_uint(prefix.val, length_size))

\* The most elements a Vec can be grown to; a push beyond it does not return.
MaxItems == 6

\* Vector::tls_deserialize up to its loop: the length is read with
\* I::tls_deserialize, and the vector of items starts empty.
tls_deserialize_start(reader, length_size, item_size) ==
    Let(mls_decode_uint(reader, length_size),
        LAMBDA len :
            IF ~len.result.ok
            THEN [pc |-> "returned", result |-> len.result, reader |-> len.reader,
                  item_size |-> item_size, len |-> 0, read_len |-> 0,
                  items |-> <<>>]
            ELSE [pc |-> "loop", result |-> Err("none"), reader |-> len.reader,
                  item_size |-> item_size, len |-> len.result.val,
                  read_len |-> 0, items |-> <<>>])

\* One evaluation of `while read_len < len` and of the loop body: an item
\* is deserialized, its serialized length is added to read_len and it is
\* pushed; the items are returned when the condition is false.
tls_deserialize_step(v) ==
    IF ~(v.read_len < v.len)
    THEN [v EXCEPT !.pc = "returned", !.result = Ok(v.items)]
    ELSE Let(item_deserialize(v.reader, v.item_size),
             LAMBDA item :
                 IF ~item.result.ok
                 THEN [v EXCEPT !.pc = "returned", !.result = item.result,
                                !.reader = item.reader]
                 ELSE IF Len(v.items) = MaxItems
                 THEN [v EXCEPT !.pc = "aborted", !.reader = item.reader]
                 ELSE [v EXCEPT
                          !.reader = item.reader,
                          !.read_len = @ + item_serialized_len(item.result.val),
                          !.items = Append(@, item.result.val)])

(***************************************************************************)
(* The proposals a bundle is built from                                    *)
(***************************************************************************)
\* Every member advertises the extension "ext" and the custom proposal type
\* "CUSTOM".
Alice == LeafNode("alice", "Ok", {"ext", "CUSTOM"})

Bob == LeafNode("bob", "Ok", {"ext", "CUSTOM"})

\* The tree of the current epoch: leaves 0 and 1 are members, leaf 2 is blank.
InitialTree == <<Alice, Bob, Blank>>

InitialExtensions == ExtensionList({}, "none", "ok")

CommitSenders == {0, 1}

KeyPackage(leaf_node, properties) ==
    [leaf_node |-> leaf_node, properties |-> properties]

GoodKeyPackage == KeyPackage(LeafNode("carol", "Ok", {"ext"}), "Ok")

\* A key package whose leaf fails validation.
UnsignedKeyPackage == KeyPackage(LeafNode("carol", "InvalidSignature", {"ext"}), "Ok")

\* Key packages that fail for another reason: the crypto provider fails on
\* the leaf, the key package properties are wrong, or the leaf advertises no
\* extension (which fails only when the extension "ext" is in use).
OtherBadKeyPackages ==
    {KeyPackage(LeafNode("carol", "CryptoProviderError", {"ext"}), "Ok"),
     KeyPackage(LeafNode("carol", "Ok", {"ext"}), "InvalidKeyPackage"),
     KeyPackage(LeafNode("carol", "Ok", {}), "Ok")}

AddProposals ==
    {ProposalInfo([key_package |-> k], s, r) :
        k \in {GoodKeyPackage}, s \in {Member(1), NewMemberProposal}, r \in BOOLEAN}
    \cup {ProposalInfo([key_package |-> UnsignedKeyPackage], Member(1), r) :
            r \in BOOLEAN}
    \cup {ProposalInfo([key_package |-> k], Member(1), TRUE) :
            k \in OtherBadKeyPackages}

\* The leaf an honest sender puts in its Update: its own identity.
OwnLeaf(sender) ==
    IF sender = Member(0) THEN Alice
    ELSE IF sender = Member(1) THEN Bob
    ELSE LeafNode("dave", "Ok", {"ext"})

\* Leaves that fail in an Update of Member(1): an invalid leaf, a leaf the
\* crypto provider fails on, a leaf without the extension "ext", and a leaf
\* of another identity.
BadUpdateLeaves ==
    {LeafNode("bob", "InvalidSignature", {"ext"}),
     LeafNode("bob", "CryptoProviderError", {"ext"}),
     LeafNode("bob", "Ok", {}),
     LeafNode("eve", "Ok", {"ext"})}

\* Member(2) has no leaf in the tree; NewMemberProposal is not a member.
UpdateProposals ==
    {ProposalInfo([leaf_node |-> OwnLeaf(s)], s, TRUE) :
        s \in {Member(0), Member(1), Member(2), NewMemberProposal}}
    \cup {ProposalInfo([leaf_node |-> Bob], Member(1), FALSE)}
    \cup {ProposalInfo([leaf_node |-> l], Member(1), TRUE) : l \in BadUpdateLeaves}

\* Leaf 2 is blank in the tree.
RemoveProposals ==
    {ProposalInfo([to_remove |-> t], Member(1), TRUE) : t \in {0, 1, 2}}
    \cup {ProposalInfo([to_remove |-> t], Member(1), FALSE) : t \in {0, 1}}
    \cup {ProposalInfo([to_remove |-> 1], NewMemberProposal, TRUE)}

PskProposals ==
    {ProposalInfo([in_storage |-> k], Member(1), r) : k \in BOOLEAN, r \in BOOLEAN}

\* The current protocol version is 1.
ReInitProposals ==
    {ProposalInfo([version |-> v], Member(1), r) : v \in {0, 1}, r \in BOOLEAN}
    \cup {ProposalInfo([version |-> 2], Member(1), TRUE)}

ExternalInitProposals ==
    {ProposalInfo([kem_output |-> "kem"], NewMemberCommit, FALSE)}
    \cup {ProposalInfo([kem_output |-> "kem"], Member(1), r) : r \in BOOLEAN}

GroupContextExtensionsProposals ==
    {ProposalInfo(e, Member(1), r) :
        e \in {ExtensionList({}, "none", "ok"),
               ExtensionList({}, "none", "malformed")},
        r \in BOOLEAN}
    \cup {ProposalInfo(e, Member(1), TRUE) :
            e \in {ExtensionList({"ext"}, "none", "ok"),
                   ExtensionList({"ext"}, "none", "malformed"),
                   ExtensionList({}, "valid", "ok"),
                   ExtensionList({}, "rejected", "ok"),
                   ExtensionList({}, "malformed", "ok")}}

\* Custom proposal types: every member advertises "CUSTOM", none advertises
\* the other two.
CustomProposalTypes == {"CUSTOM", "CUSTOM_2", "CUSTOM_3"}

\* The custom proposals a bundle given to
\* filter_out_unsupported_custom_proposals is built from.
CustomProposals ==
    {ProposalInfo([proposal_type |-> t], s, r) :
        t \in CustomProposalTypes, s \in {Member(1), External}, r \in BOOLEAN}

\* The custom proposals collected for a commit.
CommitCustomProposals ==
    {ProposalInfo([proposal_type |-> "CUSTOM"], Member(1), FALSE),
     ProposalInfo([proposal_type |-> "CUSTOM_2"], External, TRUE)}

\* The trees filter_out_unsupported_custom_proposals is given: the tree of
\* the epoch, and a tree whose second member advertises no custom proposal.
CustomTrees == {InitialTree, <<Alice, LeafNode("bob", "Ok", {"ext"}), Blank>>}

\* The inputs of the transcript hashes.
CipherSuiteProviders == {"working", "failing"}

InterimTranscriptHashes == {<<>>, <<1, 2>>, <<200, 7>>}

WireFormats == {WireFormat.PublicMessage, WireFormat.PrivateMessage}

FramedContents ==
    {FramedContent(e, 3, b) : e \in {0, 258}, b \in {<<>>, <<9, 9, 9>>}}

Signatures == {<<>>, <<5>>, <<5, 6>>}

Tags == {None, Some(<<4>>), Some(<<4, 4>>)}

AuthenticatedContents ==
    {AuthenticatedContent(w, c, g, t, m) :
        w \in WireFormats, c \in FramedContents, g \in Signatures,
        t \in Tags, m \in {None, Some(<<8>>)}}

\* The commits of a chain of epochs: each carries a confirmation tag.
MaxCommits == 2

Endpoints == {1, 2}

ChainContents ==
    {AuthenticatedContent(w, FramedContent(e, 3, <<9>>), g, Some(t), None) :
        w \in WireFormats, e \in {0, 1}, g \in {<<5>>},
        t \in {<<4>>, <<4, 4>>}}

\* The inputs of the confirmation tag.
ConfirmationKeys == {<<>>, <<1>>, <<2, 3>>}

ConfirmedTranscriptHashes == {<<>>, <<0, 7>>, <<200, 7>>}

\* The integers and the byte strings given to the codec.  The values stay
\* below 2^31.
UintWidths == {1, 2, 4, 8}

UintSamples == {0, 1, 127, 255, 256, 258, 65535, 65536, 16909060, 2147483647}

UintValues(width) ==
    {x \in UintSamples : (width = 1 => x < 256) /\ (width = 2 => x < 65536)}

Trailing == {<<>>, <<9>>, <<0, 1>>}

DecodeInputs ==
    {<<>>, <<0>>, <<255>>, <<0, 1>>, <<0, 2>>, <<0, 3>>, <<0, 1, 0>>,
     <<0, 1, 64>>, <<0, 1, 2, 7>>, <<0, 1, 2, 7, 8>>, <<0, 1, 2, 7, 8, 9>>,
     <<0, 1, 64, 1, 5>>, <<0, 2, 3>>, <<0, 2, 2, 1, 5>>, <<0, 2, 3, 1, 5>>,
     <<0, 2, 3, 1, 5, 1>>, <<0, 3, 1, 4>>, <<0, 3, 2, 4>>,
     <<127, 255, 255, 255>>, <<0, 0, 0, 0, 1, 2, 3, 4, 5>>}

\* The vectors given to Vector::tls_deserialize: the size of the length
\* prefix, the size of an element's encoding, and the bytes.
LengthSizes == {1, 2}

ItemSizes == {0, 1, 2}

VectorInputs ==
    {<<>>, <<0>>, <<1, 5>>, <<2, 5>>, <<2, 5, 6>>, <<3, 5, 6>>, <<200>>,
     <<0, 2, 5, 6>>, <<0, 0>>, <<4, 1, 2, 3, 4, 9>>, <<1, 5, 6>>,
     <<3, 5, 6, 7, 8>>}

\* The vectors given to Vector::tls_serialize: up to MaxElements elements
\* of one size; an element of 130 bytes makes two of them too long for a
\* one-byte length prefix.
MaxElements == 3

SerializedSizes == {0, 1, 2, 130}

Elements(item_size) ==
    IF item_size = 1 THEN {<<5>>, <<6>>}
    ELSE {[i \in 1..item_size |-> 7]}

Vectors(item_size) ==
    UNION {[1..n -> Elements(item_size)] : n \in 0..MaxElements}

\* What the writer holds before the call, and what follows the vector in
\* the reader it is read back from.
Writers == {<<>>, <<9>>}

\* The inputs of MembershipTag::create.
MembershipContents ==
    {AuthenticatedContent(w, FramedContent(0, 1, b), g, t, None) :
        w \in WireFormats, b \in {<<>>, <<9>>}, g \in {<<5>>, <<5, 6>>},
        t \in {None, Some(<<4>>)}}

GroupContexts ==
    {GroupContext(p, e) : p \in CipherSuiteProviders, e \in {1, 2}}

MembershipKeys == {<<1>>, <<2, 3>>}

\* The endpoints that send and receive the commits of a group.
Receivers == {1, 2}

\* The credentials given to the codec: custom credentials are made with
\* CustomCredential::new for reserved and unreserved types alike.
Identifiers == {<<>>, <<7>>, <<7, 8>>, [i \in 1..64 |-> 7]}

CustomCredentialTypes == {0, 1, 2, 3, 65535}

Credentials ==
    {Basic(i) : i \in Identifiers}
    \cup {X509(c) : c \in {<<>>, <<<<1>>>>, <<<<1>>, <<2, 3>>>>, <<<<>>, <<1>>>>}}
    \cup {Custom(CustomCredential_new(t, d)) :
            t \in CustomCredentialTypes, d \in {<<>>, <<7>>, <<1, 1>>}}

\* The proposals that may be collected in each sequence of a bundle.
Proposals ==
    [additions |-> AddProposals, updates |-> UpdateProposals,
     removals |-> RemoveProposals, psks |-> PskProposals,
     reinitializations |-> ReInitProposals,
     external_initializations |-> ExternalInitProposals,
     group_context_extensions |-> GroupContextExtensionsProposals,
     custom_proposals |-> CommitCustomProposals]

\* The proposal type of each sequence of a bundle.
TypeOf ==
    [additions |-> "ADD", updates |-> "UPDATE", removals |-> "REMOVE",
     psks |-> "PSK", reinitializations |-> "RE_INIT",
     external_initializations |-> "EXTERNAL_INIT",
     group_context_extensions |-> "GROUP_CONTEXT_EXTENSIONS",
     custom_proposals |-> "CUSTOM"]

Senders == {Member(0), Member(1), External, NewMemberCommit, NewMemberProposal}

(***************************************************************************)
(* State                                                                   *)
(***************************************************************************)
VARIABLES
    pc,                         \* "collecting", "committed" or "checked"
    proposals,                  \* the bundle collected for the commit
    strategy,                   \* the strategy of the commit
    commit_sender,              \* the leaf index of the committer
    result,                     \* what apply_proposals_from_member returned
    original_tree,              \* ProposalApplier::original_tree
    original_group_extensions,  \* ProposalApplier::original_group_extensions
    group_id,                   \* ProposalApplier::group_id
    protocol_version,           \* ProposalApplier::protocol_version
    can_propose,                \* the last call of proposer_can_propose
    custom,                     \* the last call of
                                \* filter_out_unsupported_custom_proposals
    transcript,                 \* the last call of
                                \* ConfirmedTranscriptHash::create
    chain,                      \* the commits sent in a group and the
                                \* transcript hashes of its endpoints
    confirmation,               \* the last calls of ConfirmationTag::create
                                \* and ConfirmationTag::matches
    membership,                 \* the calls of MembershipTag::create
    group,                      \* the commits sent in a group, the state
                                \* of its endpoints and the last operation
    codec,                      \* the last call of an encoder or a decoder
    vector,                     \* the call of Vector::tls_deserialize in
                                \* progress: its position and its locals
    wire                        \* the arguments of that call and the call
                                \* of Vector::tls_serialize before it

vars ==
    <<pc, proposals, strategy, commit_sender, result, original_tree,
      original_group_extensions, group_id, protocol_version, can_propose,
      custom, transcript, chain, confirmation, membership, group, codec,
      vector, wire>>

applier_vars ==
    <<original_tree, original_group_extensions, group_id, protocol_version>>

\* The variables of the commit pipeline and of the single calls.
commit_vars ==
    <<proposals, strategy, commit_sender, result, applier_vars, can_propose,
      custom, transcript>>

\* The variables of the chain of transcript hashes and of the tags.
chain_vars == <<chain, confirmation, membership, group>>

\* The variables of the codec.
codec_vars == <<codec, vector, wire>>

Applier ==
    ProposalApplier(original_tree, original_group_extensions, protocol_version,
                    group_id)

Init ==
    /\ pc = "collecting"
    /\ proposals = EmptyBundle
    /\ strategy = "IgnoreNone"
    /\ commit_sender = 0
    /\ result = Err("none")
    /\ original_tree = InitialTree
    /\ original_group_extensions = InitialExtensions
    /\ group_id = "group"
    /\ protocol_version = 1
    /\ can_propose = [proposer |-> Member(0), proposal_type |-> "none",
                      by_ref |-> FALSE, result |-> Err("none")]
    /\ custom = [strategy |-> "IgnoreNone", tree |-> InitialTree,
                 result |-> Err("none")]
    /\ transcript = [cipher_suite_provider |-> "working",
                     interim_transcript_hash |-> <<>>,
                     content |-> AuthenticatedContent(
                                     WireFormat.PublicMessage,
                                     FramedContent(0, 3, <<>>), <<>>, None, None),
                     confirmed |-> Err("none")]
    /\ chain = [started |-> FALSE, start |-> <<>>, log |-> <<>>,
                endpoints |-> [e \in Endpoints |->
                                  [interim |-> <<>>, history |-> <<>>]],
                last |-> Err("none")]
    /\ confirmation = [confirmation_key |-> <<>>,
                       confirmed_transcript_hash |-> <<>>,
                       created |-> Err("none"),
                       matched_key |-> <<>>, matched_hash |-> <<>>,
                       matches |-> Err("none")]
    /\ membership = <<>>
    /\ group = [sent |-> {},
                receivers |-> [r \in Receivers |-> GroupState(0, <<>>)],
                last |-> [receiver |-> 0, op |-> "none", epoch |-> 0,
                          commit |-> Commit_new(0, 0, FALSE),
                          result |-> Err("none")]]
    /\ codec = [op |-> "none", width |-> 0, x509 |-> FALSE, value |-> 0,
                encoded |-> <<>>, encoded_len |-> 0, input |-> <<>>,
                decoded |-> Decoded(Err("none"), <<>>)]
    /\ vector = [pc |-> "idle", result |-> Err("none"), reader |-> <<>>,
                 item_size |-> 0, len |-> 0, read_len |-> 0, items |-> <<>>]
    /\ wire = [op |-> "none", length_size |-> 0, item_size |-> 0, v |-> <<>>,
               before |-> <<>>, writer |-> <<>>, serialized |-> Err("none"),
               input |-> <<>>]

\* A proposal is received, or chosen by the committer, and joins the bundle.
Propose(field, p) ==
    /\ pc = "collecting"
    /\ length(proposals) < MaxProposals
    /\ proposals' = add(proposals, field, p)
    /\ UNCHANGED <<pc, strategy, commit_sender, result, applier_vars, can_propose,
                   custom, transcript, chain_vars, codec_vars>>

\* The committer runs apply_proposals_from_member on the bundle.
Commit(s, c) ==
    /\ pc = "collecting"
    /\ \E call \in {apply_proposals_from_member(Applier, s, c, proposals)} :
           /\ result' = call.result
           /\ original_tree' = call.self.original_tree
           /\ original_group_extensions' = call.self.original_group_extensions
           /\ group_id' = call.self.group_id
           /\ protocol_version' = call.self.protocol_version
    /\ strategy' = s
    /\ commit_sender' = c
    /\ pc' = "committed"
    /\ UNCHANGED <<proposals, can_propose, custom, transcript, chain_vars, codec_vars>>

\* proposer_can_propose is asked about one sender, type and origin.
CheckProposer(proposer, proposal_type, by_ref) ==
    /\ pc = "collecting"
    /\ proposals = EmptyBundle
    /\ can_propose' = [proposer |-> proposer, proposal_type |-> proposal_type,
                       by_ref |-> by_ref,
                       result |-> proposer_can_propose(proposer, proposal_type,
                                                       by_ref)]
    /\ pc' = "checked"
    /\ UNCHANGED <<proposals, strategy, commit_sender, result, applier_vars,
                   custom, transcript, chain_vars, codec_vars>>

\* filter_out_unsupported_custom_proposals is run on the bundle against a tree.
FilterCustom(s, tree) ==
    /\ pc = "collecting"
    /\ custom' = [strategy |-> s, tree |-> tree,
                  result |-> filter_out_unsupported_custom_proposals(
                                 proposals, tree, s)]
    /\ pc' = "filtered"
    /\ UNCHANGED <<proposals, strategy, commit_sender, result, applier_vars,
                   can_propose, transcript, chain_vars, codec_vars>>

\* ConfirmedTranscriptHash::create is called for a content on an interim
\* transcript hash.
CreateConfirmed(cipher_suite_provider, interim_transcript_hash, content) ==
    /\ pc = "collecting"
    /\ transcript' = [cipher_suite_provider |-> cipher_suite_provider,
                      interim_transcript_hash |-> interim_transcript_hash,
                      content |-> content,
                      confirmed |-> ConfirmedTranscriptHash_create(
                                        cipher_suite_provider,
                                        interim_transcript_hash, content)]
    /\ pc' = "hashed"
    /\ UNCHANGED <<proposals, strategy, commit_sender, result, applier_vars,
                   can_propose, custom, chain_vars, codec_vars>>

\* The endpoints of a group start from the same interim transcript hash.
StartChain(interim_transcript_hash) ==
    /\ pc = "collecting"
    /\ ~chain.started
    /\ chain' = [chain EXCEPT
                    !.started = TRUE, !.start = interim_transcript_hash,
                    !.endpoints = [e \in Endpoints |->
                                      [interim |-> interim_transcript_hash,
                                       history |-> <<>>]]]
    /\ UNCHANGED <<pc, commit_vars, confirmation, membership, group, codec_vars>>

\* A commit is sent to the group.
SendCommit(content) ==
    /\ chain.started
    /\ Len(chain.log) < MaxCommits
    /\ chain' = [chain EXCEPT !.log = Append(@, content)]
    /\ UNCHANGED <<pc, commit_vars, confirmation, membership, group, codec_vars>>

\* An endpoint processes the next commit of the group: transcript_hashes is
\* computed on the endpoint's interim hash, which is replaced by the new one
\* when the call succeeds.
ProcessCommit(e, cipher_suite_provider) ==
    /\ chain.started
    /\ Len(chain.endpoints[e].history) < Len(chain.log)
    /\ \E hashes \in {transcript_hashes(
                          cipher_suite_provider, chain.endpoints[e].interim,
                          chain.log[Len(chain.endpoints[e].history) + 1])} :
           chain' = [chain EXCEPT
                        !.last = hashes,
                        !.endpoints[e] =
                            IF hashes.ok
                            THEN [interim |-> hashes.val.interim,
                                  history |-> Append(@.history, hashes.val)]
                            ELSE @]
    /\ UNCHANGED <<pc, commit_vars, confirmation, membership, group, codec_vars>>

\* ConfirmationTag::create is called for a key and a confirmed hash.
CreateTag(confirmation_key, confirmed_transcript_hash, cipher_suite_provider) ==
    /\ pc = "collecting"
    /\ confirmation' =
           [confirmation EXCEPT
               !.confirmation_key = confirmation_key,
               !.confirmed_transcript_hash = confirmed_transcript_hash,
               !.created = ConfirmationTag_create(
                               confirmation_key, confirmed_transcript_hash,
                               cipher_suite_provider)]
    /\ pc' = "tagged"
    /\ UNCHANGED <<commit_vars, chain, membership, group, codec_vars>>

\* ConfirmationTag::matches is called on the tag that was created.
MatchTag(confirmation_key, confirmed_transcript_hash, cipher_suite_provider) ==
    /\ pc = "tagged"
    /\ confirmation.created.ok
    /\ confirmation' =
           [confirmation EXCEPT
               !.matched_key = confirmation_key,
               !.matched_hash = confirmed_transcript_hash,
               !.matches = ConfirmationTag_matches(
                               confirmation.created.val, confirmation_key,
                               confirmed_transcript_hash, cipher_suite_provider)]
    /\ pc' = "matched"
    /\ UNCHANGED <<commit_vars, chain, membership, group, codec_vars>>

\* An integer of `width` bytes is encoded, and the encoding followed by
\* other bytes is decoded.
UintRoundTrip(width, x, trailing) ==
    /\ pc = "collecting"
    /\ \E encoded \in {mls_encode_uint(x, width)} :
           codec' = [op |-> "uint_round_trip", width |-> width, x509 |-> FALSE,
                     value |-> x, encoded |-> encoded,
                     encoded_len |-> mls_encoded_len_uint(width),
                     input |-> encoded \o trailing,
                     decoded |-> mls_decode_uint(encoded \o trailing, width)]
    /\ pc' = "coded"
    /\ UNCHANGED <<commit_vars, chain_vars, vector, wire>>

\* An integer of `width` bytes is decoded from a byte string.
UintDecode(width, input) ==
    /\ pc = "collecting"
    /\ codec' = [op |-> "uint_decode", width |-> width, x509 |-> FALSE,
                 value |-> 0, encoded |-> <<>>, encoded_len |-> 0,
                 input |-> input,
                 decoded |-> mls_decode_uint(input, width)]
    /\ pc' = "coded"
    /\ UNCHANGED <<commit_vars, chain_vars, vector, wire>>

\* A credential is encoded, and the encoding followed by other bytes is
\* decoded.  An X.509 credential exists only in a build with the feature.
CredentialRoundTrip(x509, c, trailing) ==
    /\ pc = "collecting"
    /\ c.kind = "X509" => x509
    /\ \E encoded \in {Credential_encode(c)} :
           codec' = [op |-> "credential_round_trip", width |-> 0, x509 |-> x509,
                     value |-> c, encoded |-> encoded,
                     encoded_len |-> Credential_mls_encoded_len(c),
                     input |-> encoded \o trailing,
                     decoded |-> Credential_decode(encoded \o trailing, x509)]
    /\ pc' = "coded"
    /\ UNCHANGED <<commit_vars, chain_vars, vector, wire>>

\* A credential is decoded from a byte string.
CredentialDecode(x509, input) ==
    /\ pc = "collecting"
    /\ codec' = [op |-> "credential_decode", width |-> 0, x509 |-> x509,
                 value |-> 0, encoded |-> <<>>, encoded_len |-> 0,
                 input |-> input,
                 decoded |-> Credential_decode(input, x509)]
    /\ pc' = "coded"
    /\ UNCHANGED <<commit_vars, chain_vars, vector, wire>>

\* Vector::tls_deserialize is called on a reader.
Deserialize(length_size, item_size, input) ==
    /\ pc = "collecting"
    /\ vector.pc = "idle"
    /\ wire.op = "none"
    /\ vector' = tls_deserialize_start(input, length_size, item_size)
    /\ wire' = [wire EXCEPT !.op = "deserialize", !.length_size = length_size,
                            !.item_size = item_size, !.input = input]
    /\ UNCHANGED <<pc, commit_vars, chain_vars, codec>>

\* Vector::tls_serialize is called on a vector and a writer.
Serialize(length_size, item_size, v, writer) ==
    /\ pc = "collecting"
    /\ vector.pc = "idle"
    /\ wire.op = "none"
    /\ \E call \in {tls_serialize(v, writer, length_size)} :
           wire' = [op |-> "serialize", length_size |-> length_size,
                    item_size |-> item_size, v |-> v, before |-> writer,
                    writer |-> call.writer, serialized |-> call.result,
                    input |-> <<>>]
    /\ UNCHANGED <<pc, commit_vars, chain_vars, codec, vector>>

\* Vector::tls_deserialize is called on the bytes a successful
\* tls_serialize wrote, followed by other bytes.
DeserializeWritten(trailing) ==
    /\ wire.op = "serialize"
    /\ wire.serialized.ok
    /\ vector.pc = "idle"
    /\ \E input \in {SubSeq(wire.writer, Len(wire.before) + 1, Len(wire.writer))
                         \o trailing} :
           /\ vector' = tls_deserialize_start(input, wire.length_size,
                                              wire.item_size)
           /\ wire' = [wire EXCEPT !.op = "round_trip", !.input = input]
    /\ UNCHANGED <<pc, commit_vars, chain_vars, codec>>

\* The loop of Vector::tls_deserialize runs once more, or ends.
DeserializeStep ==
    /\ vector.pc = "loop"
    /\ vector' = tls_deserialize_step(vector)
    /\ UNCHANGED <<pc, commit_vars, chain_vars, codec, wire>>

\* MembershipTag::create is called, up to twice.
CreateMembershipTag(authenticated_content, group_context, membership_key) ==
    /\ pc = "collecting"
    /\ Len(membership) < 2
    /\ membership' =
           Append(membership,
                  [authenticated_content |-> authenticated_content,
                   group_context |-> group_context,
                   membership_key |-> membership_key,
                   tag |-> MembershipTag_create(authenticated_content,
                                                group_context, membership_key)])
    /\ UNCHANGED <<pc, commit_vars, chain, confirmation, group, codec_vars>>

\* An endpoint makes a commit against its current epoch and sends it; its
\* own epoch advances only when it receives the commit.
PublishCommit(r, valid) ==
    /\ pc = "collecting"
    /\ Cardinality(group.sent) < MaxCommits
    /\ group' = [group EXCEPT
                    !.sent = @ \cup {Commit_new(group.receivers[r].epoch, r, valid)}]
    /\ UNCHANGED <<pc, commit_vars, chain, confirmation, membership, codec_vars>>

\* An endpoint receives one of the commits that were sent, in any order and
\* any number of times.
ProcessIncoming(r, commit) ==
    /\ pc = "collecting"
    /\ commit \in group.sent
    /\ \E out \in {process_incoming(group.receivers[r], commit)} :
           group' = [group EXCEPT
                        !.receivers[r] = out.state,
                        !.last = [receiver |-> r, op |-> "process_incoming",
                                  epoch |-> group.receivers[r].epoch,
                                  commit |-> commit, result |-> out.result]]
    /\ UNCHANGED <<pc, commit_vars, chain, confirmation, membership, codec_vars>>

\* An operation of an endpoint that is not the receipt of a commit fails.
FailedOperation(r) ==
    /\ pc = "collecting"
    /\ group' = [group EXCEPT
                    !.last = [receiver |-> r, op |-> "failed",
                              epoch |-> group.receivers[r].epoch,
                              commit |-> Commit_new(0, 0, FALSE),
                              result |-> Err("CodecError")]]
    /\ UNCHANGED <<pc, commit_vars, chain, confirmation, membership, codec_vars>>

Next ==
    \/ \E field \in FieldSet : \E p \in Proposals[field] : Propose(field, p)
    \/ \E s \in FilterStrategy : \E c \in CommitSenders : Commit(s, c)
    \/ \E proposer \in Senders : \E proposal_type \in ProposalTypes :
           \E by_ref \in BOOLEAN : CheckProposer(proposer, proposal_type, by_ref)

Spec == Init /\ [][Next]_vars

\* Bundles of custom proposals given to filter_out_unsupported_custom_proposals.
CustomNext ==
    \/ \E p \in CustomProposals : Propose("custom_proposals", p)
    \/ \E s \in FilterStrategy : \E tree \in CustomTrees : FilterCustom(s, tree)

CustomSpec == Init /\ [][CustomNext]_vars

\* The transcript hash of a commit.
TranscriptNext ==
    \E cipher_suite_provider \in CipherSuiteProviders :
        \E interim_transcript_hash \in InterimTranscriptHashes :
            \E content \in AuthenticatedContents :
                CreateConfirmed(cipher_suite_provider, interim_transcript_hash,
                                content)

TranscriptSpec == Init /\ [][TranscriptNext]_vars

\* The commits of a group processed by its endpoints.
ChainNext ==
    \/ \E h \in InterimTranscriptHashes : StartChain(h)
    \/ \E content \in ChainContents : SendCommit(content)
    \/ \E e \in Endpoints : \E p \in CipherSuiteProviders : ProcessCommit(e, p)

ChainSpec == Init /\ [][ChainNext]_vars

\* A confirmation tag is created, then checked.
TagNext ==
    \/ \E k \in ConfirmationKeys : \E h \in ConfirmedTranscriptHashes :
           \E p \in CipherSuiteProviders : CreateTag(k, h, p)
    \/ \E k \in ConfirmationKeys : \E h \in ConfirmedTranscriptHashes :
           \E p \in CipherSuiteProviders : MatchTag(k, h, p)

TagSpec == Init /\ [][TagNext]_vars

\* The encoders and decoders of integers and credentials.
CodecNext ==
    \/ \E width \in UintWidths : \E x \in UintValues(width) :
           \E trailing \in Trailing : UintRoundTrip(width, x, trailing)
    \/ \E width \in UintWidths : \E input \in DecodeInputs :
           UintDecode(width, input)
    \/ \E x509 \in BOOLEAN : \E c \in Credentials : \E trailing \in Trailing :
           CredentialRoundTrip(x509, c, trailing)
    \/ \E x509 \in BOOLEAN : \E input \in DecodeInputs :
           CredentialDecode(x509, input)

CodecSpec == Init /\ [][CodecNext]_vars

\* A vector is deserialized, one loop iteration at a time, from given bytes
\* or from the bytes it was serialized to.
VectorNext ==
    \/ \E length_size \in LengthSizes : \E item_size \in ItemSizes :
           \E input \in VectorInputs : Deserialize(length_size, item_size, input)
    \/ \E length_size \in LengthSizes : \E item_size \in SerializedSizes :
           \E v \in Vectors(item_size) : \E writer \in Writers :
               Serialize(length_size, item_size, v, writer)
    \/ \E trailing \in Writers : DeserializeWritten(trailing)
    \/ DeserializeStep

VectorSpec == Init /\ [][VectorNext]_vars

\* Membership tags are created.
MembershipNext ==
    \E content \in MembershipContents : \E context \in GroupContexts :
        \E key \in MembershipKeys : CreateMembershipTag(content, context, key)

MembershipSpec == Init /\ [][MembershipNext]_vars

\* The commits of a group, sent and received in any interleaving.
GroupNext ==
    \/ \E r \in Receivers : \E valid \in BOOLEAN : PublishCommit(r, valid)
    \/ \E r \in Receivers : \E commit \in group.sent : ProcessIncoming(r, commit)
    \/ \E r \in Receivers : FailedOperation(r)

GroupSpec == Init /\ [][GroupNext]_vars

(***************************************************************************)
(* What the properties are stated in terms of                              *)
(***************************************************************************)
\* The allowed (sender kind, by-reference?, proposal type) combinations.
AllowedTable ==
    {<<"Member", FALSE, t>> :
        t \in {"ADD", "REMOVE", "PSK", "RE_INIT", "GROUP_CONTEXT_EXTENSIONS"}}
    \cup {<<"Member", TRUE, t>> :
        t \in {"ADD", "UPDATE", "REMOVE", "PSK", "RE_INIT",
               "GROUP_CONTEXT_EXTENSIONS"}}
    \cup {<<"External", TRUE, t>> :
        t \in {"ADD", "REMOVE", "RE_INIT", "PSK", "GROUP_CONTEXT_EXTENSIONS"}}
    \cup {<<"NewMemberCommit", FALSE, t>> : t \in {"REMOVE", "PSK", "EXTERNAL_INIT"}}
    \cup {<<"NewMemberProposal", TRUE, "ADD">>}

\* The positions <<field, index>> of the proposals of a bundle.
Positions(b) == UNION {{<<f, i>> : i \in 1..Len(b[f])} : f \in FieldSet}

At(b, x) == b[x[1]][x[2]]

Committed == pc = "committed"

\* The applied set of a successful commit.
Applied == result.val.applied_proposals

\* The proposals that fail the authorisation stage: those of the seven types
\* it goes through whose sender may not propose them.
Unauthorised(b) ==
    {x \in Positions(b) :
        /\ x[1] /= "custom_proposals"
        /\ <<At(b, x).sender.kind, is_by_reference(At(b, x)), TypeOf[x[1]]>>
               \notin AllowedTable}

\* Updates sent by the committer.
SelfUpdates(b, c) ==
    {x \in Positions(b) : x[1] = "updates" /\ At(b, x).sender = Member(c)}

\* Removes of the committer.
SelfRemovals(b, c) ==
    {x \in Positions(b) : x[1] = "removals" /\ At(b, x).proposal.to_remove = c}

\* PreSharedKey proposals whose key is not in the storage.
MissingPsks(b) ==
    {x \in Positions(b) : x[1] = "psks" /\ ~At(b, x).proposal.in_storage}

\* GroupContextExtensions whose external senders are rejected or unreadable.
BadExternalSenders(b) ==
    {x \in Positions(b) :
        /\ x[1] = "group_context_extensions"
        /\ At(b, x).proposal.external_senders \in {"rejected", "malformed"}}

FailsBeforeUniqueness(b, c) ==
    Unauthorised(b) \cup SelfUpdates(b, c) \cup SelfRemovals(b, c)
    \cup MissingPsks(b) \cup BadExternalSenders(b)

\* GroupContextExtensions that reach the uniqueness check after another one.
ExtraGroupContextExtensions(b, c) ==
    LET left == Positions(b) \ FailsBeforeUniqueness(b, c)
    IN  {x \in left :
            /\ x[1] = "group_context_extensions"
            /\ \E y \in left :
                  y[1] = "group_context_extensions" /\ y[2] < x[2]}

\* ReInits to a protocol version below the current one.
OldVersionReInits(b) ==
    {x \in Positions(b) :
        x[1] = "reinitializations" /\ At(b, x).proposal.version < protocol_version}

FailsBeforeReInitAlone(b, c) ==
    FailsBeforeUniqueness(b, c) \cup ExtraGroupContextExtensions(b, c)
    \cup OldVersionReInits(b)

\* ReInits that reach the ReInit-alone check together with a proposal of
\* another type.
AccompaniedReInits(b, c) ==
    LET left == Positions(b) \ FailsBeforeReInitAlone(b, c)
    IN  {x \in left :
            /\ x[1] = "reinitializations"
            /\ \E y \in left : y[1] /= "reinitializations"}

ExternalInits(b) == {x \in Positions(b) : x[1] = "external_initializations"}

\* The GroupContextExtensions proposal that reaches apply_proposal_changes
\* but whose required capabilities cannot be read.
UnreadableCapabilities(b, c) ==
    {x \in Positions(b) :
        /\ x[1] = "group_context_extensions"
        /\ At(b, x).proposal.required_capabilities = "malformed"
        /\ x \notin FailsBeforeReInitAlone(b, c)}

\* The extension list of the new epoch.
ExtensionsInUse(b, c) ==
    LET kept == {x \in Positions(b) :
                    /\ x[1] = "group_context_extensions"
                    /\ x \notin FailsBeforeReInitAlone(b, c)
                    /\ x \notin UnreadableCapabilities(b, c)}
    IN  IF kept = {} THEN original_group_extensions
        ELSE At(b, CHOOSE x \in kept : TRUE).proposal

\* Updates whose sender has no leaf in the current tree.
LostSenders(b) ==
    {x \in Positions(b) :
        /\ x[1] = "updates"
        /\ At(b, x).sender.kind = "Member"
        /\ \/ At(b, x).sender.index + 1 \notin DOMAIN original_tree
           \/ original_tree[At(b, x).sender.index + 1] = Blank}

\* Updates whose new leaf is invalid, lacks an extension in use, or is not a
\* valid successor of the sender's current leaf.
BadUpdates(b, c) ==
    LET in_use == ExtensionsInUse(b, c).types
    IN  {x \in Positions(b) \ LostSenders(b) :
            /\ x[1] = "updates"
            /\ At(b, x).sender.kind = "Member"
            /\ LET leaf == At(b, x).proposal.leaf_node
               IN  \/ leaf.validity /= "Ok"
                   \/ ~(in_use \subseteq leaf.capabilities)
                   \/ leaf.signing_identity /=
                          original_tree[At(b, x).sender.index + 1].signing_identity}

\* Adds whose key package is invalid or lacks an extension in use.
BadAdds(b, c) ==
    LET in_use == ExtensionsInUse(b, c).types
    IN  {x \in Positions(b) :
            /\ x[1] = "additions"
            /\ LET key_package == At(b, x).proposal.key_package
               IN  \/ key_package.leaf_node.validity /= "Ok"
                   \/ ~(in_use \subseteq key_package.leaf_node.capabilities)
                   \/ key_package.properties /= "Ok"}

\* Every proposal of the bundle that fails a check of the pipeline.
Failing(b, c) ==
    FailsBeforeReInitAlone(b, c) \cup AccompaniedReInits(b, c)
    \cup ExternalInits(b) \cup UnreadableCapabilities(b, c)
    \cup LostSenders(b) \cup BadUpdates(b, c) \cup BadAdds(b, c)

\* The bundle without the proposals at the positions in X.
Without(b, X) ==
    [f \in FieldSet |->
        KeepIndexes(b[f], {i \in 1..Len(b[f]) : <<f, i>> \notin X})]

\* The same proposals in the same order, type by type.
SameProposals(b1, b2) == \A f \in FieldSet : b1[f] = b2[f]

\* The Removes left in the bundle conflict in the tree edit.
RemoveConflict(b, c) ==
    LET left == {x \in Positions(b) \ Failing(b, c) : x[1] = "removals"}
    IN  \E x \in left :
            \/ At(b, x).proposal.to_remove + 1 \notin DOMAIN original_tree
            \/ original_tree[At(b, x).proposal.to_remove + 1] = Blank
            \/ \E y \in left :
                  y /= x /\ At(b, y).proposal.to_remove = At(b, x).proposal.to_remove

(***************************************************************************)
(* Properties                                                              *)
(***************************************************************************)
\* C1: under IgnoreByRef, when every proposal of the bundle that fails a
\* check (authorisation, self-update, self-removal, PSK, extensions, ReInit
\* version, ReInit alone, ExternalInit, leaf validation, successor, lookup
\* of the updating member's leaf) is by-reference, the commit succeeds and
\* the applied set is the bundle without exactly the failing proposals.
C1_ByRefFailuresNeverFailTheCommit ==
    (/\ Committed
     /\ strategy = "IgnoreByRef"
     /\ \A x \in Failing(proposals, commit_sender) :
            is_by_reference(At(proposals, x))
     /\ ~RemoveConflict(proposals, commit_sender))
    => /\ result.ok
       /\ SameProposals(Applied,
                        Without(proposals, Failing(proposals, commit_sender)))

\* C2: by-value proposals are never dropped: a successful commit applies
\* every by-value proposal of the bundle, and a by-value proposal that fails
\* a check makes the commit fail.
C2_ByValueNeverDropped ==
    Committed =>
        /\ result.ok =>
              \A f \in FieldSet :
                  SelectSeq(proposals[f], is_by_value) = SelectSeq(Applied[f], is_by_value)
        /\ (\E x \in Failing(proposals, commit_sender) :
                is_by_value(At(proposals, x)))
           => ~result.ok

\* C2 witness: a successful commit under IgnoreByRef that kept a by-value
\* proposal and dropped a by-reference one.
C2_Witness ==
    /\ Committed
    /\ strategy = "IgnoreByRef"
    /\ result.ok
    /\ \E f \in FieldSet : \E i \in 1..Len(Applied[f]) : is_by_value(Applied[f][i])
    /\ length(Applied) < length(proposals)

\* The errors of the checks that some proposal of the bundle fails.
CheckErrors(b, c) ==
    {"InvalidProposalTypeForSender" : x \in Unauthorised(b) \cup ExternalInits(b)}
    \cup {"InvalidCommitSelfUpdate" : x \in SelfUpdates(b, c)}
    \cup {"CommitterSelfRemoval" : x \in SelfRemovals(b, c)}
    \cup {"MissingRequiredPsk" : x \in MissingPsks(b)}
    \cup {IF At(b, x).proposal.external_senders = "rejected"
          THEN "IdentityProviderError" ELSE "ExtensionError" :
              x \in BadExternalSenders(b)}
    \cup {"MoreThanOneGroupContextExtensionsProposal" :
              x \in ExtraGroupContextExtensions(b, c)}
    \cup {"InvalidProtocolVersionInReInit" : x \in OldVersionReInits(b)}
    \cup {"OtherProposalWithReInit" : x \in AccompaniedReInits(b, c)}
    \cup {"ExtensionError" : x \in UnreadableCapabilities(b, c)}
    \cup {"LeafNotFound" : x \in LostSenders(b)}
    \cup UNION {{At(b, x).proposal.leaf_node.validity,
                 "UnsupportedGroupExtension", "InvalidSuccessor"} \ {"Ok"} :
                    x \in BadUpdates(b, c)}
    \cup UNION {{At(b, x).proposal.key_package.leaf_node.validity,
                 "UnsupportedGroupExtension",
                 At(b, x).proposal.key_package.properties} \ {"Ok"} :
                    x \in BadAdds(b, c)}

\* C3: under IgnoreNone a proposal of either origin that fails a check makes
\* the commit fail with the error of a failed check, and a successful commit
\* applies the whole bundle.
C3_IgnoreNoneDropsNothing ==
    (Committed /\ strategy = "IgnoreNone") =>
        /\ Failing(proposals, commit_sender) /= {} =>
              /\ ~result.ok
              /\ result.err \in CheckErrors(proposals, commit_sender)
        /\ result.ok => SameProposals(Applied, proposals)

\* C3 witness: under IgnoreNone a commit failed although every failing
\* proposal of its bundle was by-reference.
C3_Witness ==
    /\ Committed
    /\ strategy = "IgnoreNone"
    /\ ~result.ok
    /\ Failing(proposals, commit_sender) /= {}
    /\ \A x \in Failing(proposals, commit_sender) : is_by_reference(At(proposals, x))

\* C4: proposer_can_propose returns Ok exactly for the combinations of the
\* allowed table and InvalidProposalTypeForSender for every other one.
C4_ProposerTable ==
    pc = "checked" =>
        LET allowed == <<can_propose.proposer.kind, can_propose.by_ref,
                         can_propose.proposal_type>> \in AllowedTable
        IN  /\ can_propose.result.ok <=> allowed
            /\ ~allowed => can_propose.result.err = "InvalidProposalTypeForSender"

\* C4 witness: an Update by value from a member was refused.
C4_Witness ==
    /\ pc = "checked"
    /\ can_propose.proposer.kind = "Member"
    /\ can_propose.proposal_type = "UPDATE"
    /\ ~can_propose.by_ref
    /\ ~can_propose.result.ok

\* The bundle holds a ReInit and a by-value proposal at another position.
ReInitWithOtherByValue(b) ==
    \E x \in Positions(b) : \E y \in Positions(b) :
        x[1] = "reinitializations" /\ y /= x /\ is_by_value(At(b, y))

\* C5 as stated: a bundle with a ReInit (of either origin) and at least one
\* other by-value proposal never yields a successful commit.
C5_ReInitWithByValueAlwaysFails ==
    (Committed /\ ReInitWithOtherByValue(proposals)) => ~result.ok

\* C5 amended: a bundle with a ReInit and at least one by-value proposal of
\* another type never yields a successful commit when the strategy is
\* IgnoreNone or the ReInit is by-value.
C5_ByValueReInitWithByValueFails ==
    (/\ Committed
     /\ \E x \in Positions(proposals) : \E y \in Positions(proposals) :
            /\ x[1] = "reinitializations"
            /\ y[1] /= "reinitializations"
            /\ is_by_value(At(proposals, y))
            /\ strategy = "IgnoreNone" \/ is_by_value(At(proposals, x)))
    => ~result.ok

\* C5 witness: a commit under IgnoreByRef failed at the ReInit-alone check on
\* a by-value ReInit and a by-value proposal of another type.
C5_Witness ==
    /\ Committed
    /\ strategy = "IgnoreByRef"
    /\ Len(proposals.reinitializations) = 1
    /\ is_by_value(proposals.reinitializations[1])
    /\ \E y \in Positions(proposals) :
           y[1] /= "reinitializations" /\ is_by_value(At(proposals, y))
    /\ ~result.ok
    /\ result.err = "OtherProposalWithReInit"

\* The ReInit at position x is by-value, authorised and of a current version.
ValidByValueReInit(b, c, x) ==
    /\ x[1] = "reinitializations"
    /\ is_by_value(At(b, x))
    /\ x \notin FailsBeforeReInitAlone(b, c)

\* C6 as stated: under IgnoreByRef, a valid by-value ReInit whose companions
\* are all by-reference makes the commit succeed with the ReInit as its only
\* applied proposal.
C6_ByRefCompanionsDropped ==
    \A x \in Positions(proposals) :
        (/\ Committed
         /\ strategy = "IgnoreByRef"
         /\ ValidByValueReInit(proposals, commit_sender, x)
         /\ Positions(proposals) /= {x}
         /\ \A y \in Positions(proposals) \ {x} : is_by_reference(At(proposals, y)))
        => /\ result.ok
           /\ Applied.reinitializations = <<At(proposals, x)>>
           /\ length(Applied) = 1

\* C6 amended: under IgnoreByRef, with a valid by-value ReInit whose
\* companions are all by-reference proposals of other types, the companions
\* that fail an earlier check are dropped; if none remains at the
\* ReInit-alone check the commit succeeds with the ReInit as its only
\* applied proposal, otherwise it fails with OtherProposalWithReInit.
C6_ByRefCompanionsFailTheCommit ==
    \A x \in Positions(proposals) :
        (/\ Committed
         /\ strategy = "IgnoreByRef"
         /\ ValidByValueReInit(proposals, commit_sender, x)
         /\ Positions(proposals) /= {x}
         /\ \A y \in Positions(proposals) \ {x} :
                y[1] /= "reinitializations" /\ is_by_reference(At(proposals, y)))
        => IF Positions(proposals) \ FailsBeforeReInitAlone(proposals, commit_sender)
                  = {x}
           THEN /\ result.ok
                /\ Applied.reinitializations = <<At(proposals, x)>>
                /\ length(Applied) = 1
           ELSE /\ ~result.ok
                /\ result.err = "OtherProposalWithReInit"

\* C6 witness: under IgnoreByRef a valid by-value ReInit met a by-reference
\* proposal at the ReInit-alone check and the commit failed.
C6_Witness ==
    /\ Committed
    /\ strategy = "IgnoreByRef"
    /\ \E x \in Positions(proposals) :
           /\ ValidByValueReInit(proposals, commit_sender, x)
           /\ Positions(proposals) /= {x}
           /\ \A y \in Positions(proposals) \ {x} :
                  y[1] /= "reinitializations" /\ is_by_reference(At(proposals, y))
    /\ ~result.ok
    /\ result.err = "OtherProposalWithReInit"

\* C7: a ReInit in the applied set of a successful commit is alone: no
\* proposal of another type and no second ReInit is applied with it.
C7_AppliedReInitIsAlone ==
    (Committed /\ result.ok /\ Applied.reinitializations /= <<>>)
    => length(Applied) = 1

\* The bundle is one valid by-value ReInit and one valid by-value Add, both
\* sent by members.
ByValueReInitAndAdd(b) ==
    /\ Len(b.reinitializations) = 1
    /\ Len(b.additions) = 1
    /\ length(b) = 2
    /\ \A p \in {b.reinitializations[1], b.additions[1]} :
           is_by_value(p) /\ p.sender.kind = "Member"
    /\ b.reinitializations[1].proposal.version >= protocol_version
    /\ b.additions[1].proposal.key_package.leaf_node.validity = "Ok"
    /\ b.additions[1].proposal.key_package.properties = "Ok"

\* C8: a by-value ReInit with a by-value Add fails under both strategies
\* with OtherProposalWithReInit.
C8_ReInitWithAddFails ==
    (Committed /\ ByValueReInitAndAdd(proposals))
    => ~result.ok /\ result.err = "OtherProposalWithReInit"

\* C8 witness: such a bundle was committed under IgnoreByRef.
C8_Witness ==
    Committed /\ ByValueReInitAndAdd(proposals) /\ strategy = "IgnoreByRef"

\* The bundle is a by-reference Update sent by the committer and a
\* by-reference Add whose key package is invalid.
SelfUpdateAndBadAdd(b, c) ==
    /\ Len(b.updates) = 1
    /\ Len(b.additions) = 1
    /\ length(b) = 2
    /\ is_by_reference(b.updates[1])
    /\ b.updates[1].sender = Member(c)
    /\ is_by_reference(b.additions[1])
    /\ \/ b.additions[1].proposal.key_package.leaf_node.validity /= "Ok"
       \/ b.additions[1].proposal.key_package.properties /= "Ok"

\* C9: for a by-reference Update of the committer with a by-reference Add of
\* an invalid key package, IgnoreByRef succeeds and applies neither, and
\* IgnoreNone fails with InvalidCommitSelfUpdate.
C9_SelfUpdateAndBadAdd ==
    (Committed /\ SelfUpdateAndBadAdd(proposals, commit_sender)) =>
        IF strategy = "IgnoreByRef"
        THEN result.ok /\ Applied.updates = <<>> /\ Applied.additions = <<>>
        ELSE ~result.ok /\ result.err = "InvalidCommitSelfUpdate"

\* C9 witness: such a bundle was committed under IgnoreByRef and nothing of
\* it was applied.
C9_Witness ==
    /\ Committed
    /\ SelfUpdateAndBadAdd(proposals, commit_sender)
    /\ strategy = "IgnoreByRef"
    /\ result.ok
    /\ length(Applied) = 0

\* C10: no step changes the applier's original tree, original group
\* extensions or group id, whether the commit succeeds or fails; the edits
\* of a successful commit are in the tree it returns.
C10_OriginalStateUntouched ==
    [][/\ original_tree' = original_tree
       /\ original_group_extensions' = original_group_extensions
       /\ group_id' = group_id
       /\ (pc' = "committed" /\ result'.ok) =>
             LET out == result'.val
             IN  /\ Len(out.indexes_of_added_kpkgs) = Len(out.applied_proposals.additions)
                 /\ \A i \in 1..Len(out.indexes_of_added_kpkgs) :
                        out.new_tree[out.indexes_of_added_kpkgs[i] + 1] =
                            out.applied_proposals.additions[i].proposal.key_package.leaf_node]_vars

\* C10 witness: a commit failed inside batch_edit and the original tree is
\* the tree of the epoch.
C10_Witness ==
    /\ Committed
    /\ ~result.ok
    /\ result.err = "RemovingNonExistingMember"
    /\ original_tree = InitialTree

\* The failures at the positions in X may all be ignored under the strategy
\* of the commit.
Ignorable(b, X) ==
    \A x \in X : ignore(strategy, is_by_reference(At(b, x)))

\* The by-value GroupContextExtensions proposals of a bundle.
ByValueGroupContextExtensions(b) ==
    {x \in Positions(b) :
        x[1] = "group_context_extensions" /\ is_by_value(At(b, x))}

\* C11: a successful commit applies at most one GroupContextExtensions
\* proposal; a bundle with two by-value GroupContextExtensions proposals
\* never commits, and when both reach the uniqueness check (no earlier check
\* fails the commit) the error is MoreThanOneGroupContextExtensionsProposal.
C11_AtMostOneGroupContextExtensions ==
    Committed =>
        /\ result.ok => Len(Applied.group_context_extensions) <= 1
        /\ Cardinality(ByValueGroupContextExtensions(proposals)) >= 2 =>
              /\ ~result.ok
              /\ Ignorable(proposals,
                           FailsBeforeUniqueness(proposals, commit_sender))
                 => result.err = "MoreThanOneGroupContextExtensionsProposal"

\* C11 witness: two by-value GroupContextExtensions proposals failed the
\* commit under IgnoreByRef at the uniqueness check.
C11_Witness ==
    /\ Committed
    /\ strategy = "IgnoreByRef"
    /\ Cardinality(ByValueGroupContextExtensions(proposals)) = 2
    /\ ~result.ok
    /\ result.err = "MoreThanOneGroupContextExtensionsProposal"

\* No Update of the committer and no Remove of the committer is applied.
NoSelfUpdateOrRemovalApplied ==
    /\ \A i \in 1..Len(Applied.updates) :
           Applied.updates[i].sender /= Member(commit_sender)
    /\ \A i \in 1..Len(Applied.removals) :
           Applied.removals[i].proposal.to_remove /= commit_sender

\* C12 as stated: a successful commit applies no Update sent by the committer
\* and no Remove of the committer; such a proposal, unless it is by-reference
\* under IgnoreByRef, fails the commit, with InvalidCommitSelfUpdate for the
\* Update and CommitterSelfRemoval for the Remove when no other proposal
\* fails the commit at an earlier check.
C12_SelfUpdateAndRemovalErrors ==
    Committed =>
        /\ result.ok => NoSelfUpdateOrRemovalApplied
        /\ \A x \in SelfUpdates(proposals, commit_sender) :
              ~ignore(strategy, is_by_reference(At(proposals, x))) =>
                  /\ ~result.ok
                  /\ Ignorable(proposals, Unauthorised(proposals) \ {x})
                     => result.err = "InvalidCommitSelfUpdate"
        /\ \A x \in SelfRemovals(proposals, commit_sender) :
              ~ignore(strategy, is_by_reference(At(proposals, x))) =>
                  /\ ~result.ok
                  /\ Ignorable(proposals,
                               (Unauthorised(proposals)
                                \cup SelfUpdates(proposals, commit_sender)) \ {x})
                     => result.err = "CommitterSelfRemoval"

\* C12 amended: a successful commit applies no Update sent by the committer
\* and no Remove of the committer; such a proposal, unless it is by-reference
\* under IgnoreByRef, fails the commit.  A by-value Update fails at the
\* authorisation check with InvalidProposalTypeForSender; a by-reference
\* Update of the committer under IgnoreNone fails with
\* InvalidCommitSelfUpdate and a Remove of the committer with
\* CommitterSelfRemoval, when no earlier check fails the commit.
C12_NoSelfUpdateOrRemoval ==
    Committed =>
        /\ result.ok => NoSelfUpdateOrRemovalApplied
        /\ \A x \in SelfUpdates(proposals, commit_sender) :
              ~ignore(strategy, is_by_reference(At(proposals, x))) =>
                  /\ ~result.ok
                  /\ is_by_value(At(proposals, x))
                     => result.err = "InvalidProposalTypeForSender"
                  /\ Ignorable(proposals, Unauthorised(proposals))
                     => result.err = "InvalidCommitSelfUpdate"
        /\ \A x \in SelfRemovals(proposals, commit_sender) :
              ~ignore(strategy, is_by_reference(At(proposals, x))) =>
                  /\ ~result.ok
                  /\ Ignorable(proposals,
                               Unauthorised(proposals)
                               \cup SelfUpdates(proposals, commit_sender))
                     => result.err = "CommitterSelfRemoval"

\* C12 witness: a by-value Remove of the committer failed the commit under
\* IgnoreByRef with CommitterSelfRemoval.
C12_Witness ==
    /\ Committed
    /\ strategy = "IgnoreByRef"
    /\ \E x \in SelfRemovals(proposals, commit_sender) :
           is_by_value(At(proposals, x))
    /\ ~result.ok
    /\ result.err = "CommitterSelfRemoval"

\* C13: a commit of a member never applies an ExternalInit: the result of a
\* successful commit holds no ExternalInit and its external_init_index is
\* None, and an ExternalInit that is not by-reference under IgnoreByRef
\* fails the commit, with InvalidProposalTypeForSender when no other
\* proposal fails the commit at an earlier check.
C13_NoExternalInitFromMember ==
    Committed =>
        /\ result.ok =>
              /\ Applied.external_initializations = <<>>
              /\ result.val.external_init_index = "None"
        /\ \A x \in ExternalInits(proposals) :
              ~ignore(strategy, is_by_reference(At(proposals, x))) =>
                  /\ ~result.ok
                  /\ (\/ x \in Unauthorised(proposals)
                      \/ Ignorable(proposals,
                                   FailsBeforeReInitAlone(proposals, commit_sender)
                                   \cup AccompaniedReInits(proposals, commit_sender)))
                     => result.err = "InvalidProposalTypeForSender"

\* C13 witness: a by-value ExternalInit sent by NewMemberCommit, which the
\* authorisation check lets through, failed the commit under IgnoreByRef.
C13_Witness ==
    /\ Committed
    /\ strategy = "IgnoreByRef"
    /\ \E x \in ExternalInits(proposals) \ Unauthorised(proposals) :
           is_by_value(At(proposals, x))
    /\ ~result.ok
    /\ result.err = "InvalidProposalTypeForSender"

\* The extension list a successful commit leaves in use: that of the applied
\* GroupContextExtensions proposal, or the group's own.
AppliedExtensions ==
    IF Applied.group_context_extensions = <<>>
    THEN original_group_extensions
    ELSE Applied.group_context_extensions[1].proposal

\* The Updates that reach the successor check with a valid leaf that
\* supports the extensions in use, and whose new identity is not a successor
\* of the sender's.
SuccessorFails(b, c) ==
    {x \in BadUpdates(b, c) \ (Unauthorised(b) \cup SelfUpdates(b, c)) :
        LET leaf == At(b, x).proposal.leaf_node
        IN  /\ leaf.validity = "Ok"
            /\ ExtensionsInUse(b, c).types \subseteq leaf.capabilities}

\* C14: every Update and every Add applied by a successful commit has a
\* valid leaf that supports the extension list left in use; every applied
\* Add has valid key package properties and every applied Update is a valid
\* successor of its sender's leaf.  An Update that fails only the successor
\* check is dropped when by-reference under IgnoreByRef and otherwise fails
\* the commit, with InvalidSuccessor when nothing else fails it.
C14_AppliedLeavesAreValid ==
    Committed =>
        /\ result.ok =>
              /\ \A i \in 1..Len(Applied.updates) :
                    LET p == Applied.updates[i]
                        leaf == p.proposal.leaf_node
                        old_leaf == get_leaf_node(original_tree, p.sender.index)
                    IN  /\ p.sender.kind = "Member"
                        /\ check_if_valid(leaf).ok
                        /\ leaf_supports_extensions(leaf, AppliedExtensions).ok
                        /\ old_leaf.ok
                        /\ valid_successor(old_leaf.val.signing_identity,
                                           leaf.signing_identity) = Ok(TRUE)
              /\ \A i \in 1..Len(Applied.additions) :
                    LET key_package == Applied.additions[i].proposal.key_package
                    IN  /\ check_if_valid(key_package.leaf_node).ok
                        /\ leaf_supports_extensions(key_package.leaf_node,
                                                    AppliedExtensions).ok
                        /\ validate_key_package_properties(key_package).ok
        /\ \A x \in SuccessorFails(proposals, commit_sender) :
              IF ignore(strategy, is_by_reference(At(proposals, x)))
              THEN result.ok =>
                      \A i \in 1..Len(Applied.updates) :
                          Applied.updates[i] /= At(proposals, x)
              ELSE /\ ~result.ok
                   /\ Ignorable(proposals,
                                Failing(proposals, commit_sender) \ {x})
                      => result.err = "InvalidSuccessor"

\* C14 witness: under IgnoreByRef a by-reference Update that is not a valid
\* successor was dropped and the Add collected with it was applied.
C14_Witness ==
    /\ Committed
    /\ strategy = "IgnoreByRef"
    /\ SuccessorFails(proposals, commit_sender) /= {}
    /\ result.ok
    /\ Len(Applied.additions) = 1

\* The Adds and Updates that reach leaf validation with a leaf on which the
\* crypto provider fails.
CryptoFailures(b, c) ==
    {x \in Positions(b) \ (FailsBeforeReInitAlone(b, c) \cup LostSenders(b)) :
        \/ /\ x[1] = "additions"
           /\ At(b, x).proposal.key_package.leaf_node.validity
                  = "CryptoProviderError"
        \/ /\ x[1] = "updates"
           /\ At(b, x).proposal.leaf_node.validity = "CryptoProviderError"}

\* C15: an error of the crypto provider raised while validating the leaf of
\* a proposal always fails the commit, under either strategy and whatever
\* the origin of the proposal.
C15_CryptoErrorsAreFatal ==
    (Committed /\ CryptoFailures(proposals, commit_sender) /= {}) => ~result.ok

\* The proposal type of the proposal at position x.
ProposalTypeAt(b, x) ==
    IF x[1] = "custom_proposals" THEN At(b, x).proposal.proposal_type
    ELSE TypeOf[x[1]]

\* C16: every proposal applied by a successful commit, custom proposals
\* included, has a sender, type and origin for which proposer_can_propose
\* returns Ok.
C16_AppliedProposalsAreAuthorised ==
    (Committed /\ result.ok) =>
        \A x \in Positions(Applied) :
            proposer_can_propose(At(Applied, x).sender, ProposalTypeAt(Applied, x),
                                 is_by_reference(At(Applied, x))).ok

\* The bundle as it leaves the self-update check.
AfterSelfUpdateCheck ==
    AndThen(filter_out_invalid_proposers(strategy, proposals),
            LAMBDA b : filter_out_update_for_committer(strategy, commit_sender, b))

\* C17: the internal errors are unreachable.  Every Update left after the
\* authorisation and self-update checks has a Member sender, so computing
\* update_senders succeeds; the commit never returns
\* InternalProposalFilterError; and in the applied set update_senders holds,
\* at every index of the Update list, the leaf index of that Update's sender.
C17_InternalErrorsUnreachable ==
    Committed =>
        /\ AfterSelfUpdateCheck.ok =>
              /\ \A i \in 1..Len(AfterSelfUpdateCheck.val.updates) :
                    AfterSelfUpdateCheck.val.updates[i].sender.kind = "Member"
              /\ collect_update_senders(AfterSelfUpdateCheck.val).ok
        /\ ~result.ok => result.err /= "InternalProposalFilterError"
        /\ result.ok =>
              /\ Len(Applied.update_senders) = Len(Applied.updates)
              /\ \A i \in 1..Len(Applied.updates) :
                    Applied.updates[i].sender = Member(Applied.update_senders[i])

\* C17 witness: an Update of a sender that is not a member was dropped by
\* the authorisation check and the Update collected with it was applied.
C17_Witness ==
    /\ Committed
    /\ \E i \in 1..Len(proposals.updates) :
           proposals.updates[i].sender.kind /= "Member"
    /\ result.ok
    /\ Len(Applied.updates) = 1

\* The ReInits of a bundle of a version below the current one are
\* OldVersionReInits; these are the checks that run before the version check.
FailsBeforeReInitVersion(b, c) ==
    FailsBeforeUniqueness(b, c) \cup ExtraGroupContextExtensions(b, c)

\* C18: a ReInit of a version below the current one is dropped when it is
\* by-reference under IgnoreByRef and otherwise fails the commit, with
\* InvalidProtocolVersionInReInit when no earlier check fails it; a ReInit
\* of the current or a higher version is never rejected by the version
\* check.
C18_ReInitVersion ==
    Committed =>
        /\ \A x \in OldVersionReInits(proposals) :
              IF ignore(strategy, is_by_reference(At(proposals, x)))
              THEN result.ok =>
                      \A i \in 1..Len(Applied.reinitializations) :
                          Applied.reinitializations[i] /= At(proposals, x)
              ELSE /\ ~result.ok
                   /\ Ignorable(proposals,
                                FailsBeforeReInitVersion(proposals, commit_sender))
                      => result.err = "InvalidProtocolVersionInReInit"
        /\ OldVersionReInits(proposals) = {} =>
              LET checked == filter_out_invalid_reinit(strategy, proposals,
                                                       protocol_version)
              IN  /\ checked.ok
                  /\ checked.val = proposals
                  /\ ~result.ok => result.err /= "InvalidProtocolVersionInReInit"

\* C18 witness: a by-value ReInit of a lower version failed the commit under
\* IgnoreByRef at the version check.
C18_Witness ==
    /\ Committed
    /\ strategy = "IgnoreByRef"
    /\ \E x \in OldVersionReInits(proposals) : is_by_value(At(proposals, x))
    /\ ~result.ok
    /\ result.err = "InvalidProtocolVersionInReInit"

\* The indexes of the custom proposals of the bundle whose type the tree
\* given to the filter cannot support.
UnsupportedCustom ==
    {i \in 1..Len(proposals.custom_proposals) :
        ~can_support_proposal(custom.tree,
                              proposals.custom_proposals[i].proposal.proposal_type)}

\* Those of them that the strategy given to the filter does not ignore.
FatalCustom ==
    {i \in UnsupportedCustom :
        ~ignore(custom.strategy, is_by_reference(proposals.custom_proposals[i]))}

\* C19: filter_out_unsupported_custom_proposals succeeds exactly when every
\* custom proposal of an unsupported type is by-reference under IgnoreByRef;
\* it then keeps, in order, exactly the custom proposals whose type the tree
\* can support; otherwise it fails with UnsupportedCustomProposal of the type
\* of the first such proposal.
C19_UnsupportedCustomProposals ==
    pc = "filtered" =>
        IF FatalCustom = {}
        THEN /\ custom.result.ok
             /\ custom.result.val.custom_proposals =
                    KeepIndexes(proposals.custom_proposals,
                                (1..Len(proposals.custom_proposals))
                                    \ UnsupportedCustom)
             /\ \A i \in 1..Len(custom.result.val.custom_proposals) :
                    can_support_proposal(
                        custom.tree,
                        custom.result.val.custom_proposals[i].proposal.proposal_type)
        ELSE /\ ~custom.result.ok
             /\ \E i \in FatalCustom :
                    /\ \A j \in FatalCustom : i <= j
                    /\ custom.result.err =
                           <<"UnsupportedCustomProposal",
                             proposals.custom_proposals[i].proposal.proposal_type>>

\* C19 witness: under IgnoreByRef the filter dropped a by-reference custom
\* proposal of an unsupported type and kept one of a supported type.
C19_Witness ==
    /\ pc = "filtered"
    /\ custom.strategy = "IgnoreByRef"
    /\ custom.result.ok
    /\ UnsupportedCustom /= {}
    /\ Len(custom.result.val.custom_proposals) = 1

\* The bytes the confirmed transcript hash is to cover: the interim hash,
\* the wire format as two big-endian bytes, the framed content, and the
\* signature behind its length.
CoveredBytes(t) ==
    t.interim_transcript_hash
    \o <<t.content.wire_format \div 256, t.content.wire_format % 256>>
    \o FramedContent_encode(t.content.content)
    \o <<Len(t.content.auth.signature)>> \o t.content.auth.signature

\* C20: the confirmed transcript hash is the hash of the interim hash
\* followed by the encoding of the wire format, the framed content and the
\* signature, and is the same whatever confirmation tag and membership tag
\* the auth data of the content holds.
C20_ConfirmedHashCoversContentAndSignature ==
    (pc = "hashed" /\ transcript.cipher_suite_provider = "working") =>
        /\ transcript.confirmed = hash("working", CoveredBytes(transcript))
        /\ \A t \in Tags : \A m \in Tags :
              ConfirmedTranscriptHash_create(
                  transcript.cipher_suite_provider,
                  transcript.interim_transcript_hash,
                  [transcript.content EXCEPT !.auth.confirmation_tag = t,
                                             !.auth.membership_tag = m])
                  = transcript.confirmed

\* C20 witness: a confirmed hash was computed for a content whose auth data
\* holds a confirmation tag and a membership tag.
C20_Witness ==
    /\ pc = "hashed"
    /\ transcript.confirmed.ok
    /\ transcript.content.auth.confirmation_tag /= None
    /\ transcript.content.auth.membership_tag /= None

\* The interim hash endpoint e held when it processed the k-th commit.
InterimBefore(e, k) ==
    IF k = 1 THEN chain.start ELSE chain.endpoints[e].history[k - 1].interim

\* The hashes endpoint e recorded for the k-th commit are the hash of the
\* previous interim hash followed by the wire format, the content and the
\* signature of the commit, and the hash of that confirmed hash followed by
\* the encoded confirmation tag.
ChainedAt(e, k) ==
    LET content == chain.log[k]
        hashes == chain.endpoints[e].history[k]
    IN  /\ hashes.confirmed =
               hash("working",
                    InterimBefore(e, k)
                    \o mls_encode_uint(content.wire_format, 2)
                    \o FramedContent_encode(content.content)
                    \o byte_vec_encode(content.auth.signature)).val
        /\ hashes.interim =
               hash("working",
                    hashes.confirmed
                    \o byte_vec_encode(content.auth.confirmation_tag[1])).val

\* C21: the interim hash after a commit is the hash of the new confirmed
\* hash and the encoded confirmation tag, and it is the interim hash the
\* next commit is hashed on; so two endpoints that started from the same
\* interim hash hold the same confirmed and interim hashes at every epoch
\* both have reached.
C21_TranscriptHashesChain ==
    /\ \A e \in Endpoints :
           /\ \A k \in 1..Len(chain.endpoints[e].history) : ChainedAt(e, k)
           /\ chain.endpoints[e].interim =
                  InterimBefore(e, Len(chain.endpoints[e].history) + 1)
    /\ \A e1, e2 \in Endpoints :
           \A k \in 1..Len(chain.endpoints[e1].history) :
               k <= Len(chain.endpoints[e2].history)
                   => chain.endpoints[e1].history[k] = chain.endpoints[e2].history[k]

\* Both endpoints have processed two different commits and hold the same
\* hashes, which changed from the first epoch to the second.
C21_Witness ==
    /\ \A e \in Endpoints : Len(chain.endpoints[e].history) = 2
    /\ chain.log[1] /= chain.log[2]
    /\ chain.endpoints[1].interim = chain.endpoints[2].interim
    /\ chain.endpoints[1].history[1].interim /= chain.endpoints[1].history[2].interim
    /\ chain.endpoints[1].history[1].confirmed
           /= chain.endpoints[2].history[2].confirmed

\* C22: the confirmation tag is the MAC of the confirmed transcript hash
\* under the confirmation key, and a tag created for a key and a hash
\* matches that key and that hash.
C22_ConfirmationTagMatches ==
    /\ confirmation.created.ok
           => confirmation.created.val =
                  mac("working", confirmation.confirmation_key,
                      confirmation.confirmed_transcript_hash).val
    /\ (/\ pc = "matched"
        /\ confirmation.matched_key = confirmation.confirmation_key
        /\ confirmation.matched_hash = confirmation.confirmed_transcript_hash
        /\ confirmation.matches.ok)
           => confirmation.matches.val

\* A tag created for a key and a hash that are not empty was checked against
\* the same key and hash, and matched.
C22_Witness ==
    /\ pc = "matched"
    /\ confirmation.confirmation_key /= <<>>
    /\ confirmation.confirmed_transcript_hash /= <<>>
    /\ confirmation.matched_key = confirmation.confirmation_key
    /\ confirmation.matched_hash = confirmation.confirmed_transcript_hash
    /\ confirmation.matches = Ok(TRUE)

\* The credential types a build reserves for its own variants.
ReservedCredentialTypes(x509) ==
    {CredentialType.BASIC} \cup (IF x509 THEN {CredentialType.X509} ELSE {})

\* The credential that was encoded came back, and the reader holds exactly
\* the bytes that followed the encoding.
CredentialCameBack ==
    /\ codec.decoded.result = Ok(codec.value)
    /\ codec.decoded.reader = Advance(codec.input, Len(codec.encoded))

\* The encoding of a credential is its type as a u16, then the body.
TypeThenBody ==
    /\ Len(codec.encoded) = codec.encoded_len
    /\ from_be_bytes(SubSeq(codec.encoded, 1, 2)) = credential_type(codec.value)

\* What a decoded credential is, by the tag the input starts with: 1 is
\* Basic, 2 is X.509 in a build with the feature, and any other tag is a
\* Custom credential with that tag whose data are the bytes of the input
\* just before the reader.
DecodedByTag ==
    LET tag == from_be_bytes(SubSeq(codec.input, 1, 2))
        c == codec.decoded.result.val
        end == Len(codec.input) - Len(codec.decoded.reader)
    IN  CASE tag = CredentialType.BASIC -> c.kind = "Basic"
          [] tag = CredentialType.X509 /\ codec.x509 -> c.kind = "X509"
          [] OTHER -> /\ c.kind = "Custom"
                      /\ c.credential_type = tag
                      /\ c.data = SubSeq(codec.input, end - Len(c.data) + 1, end)

\* C23 as stated: every credential, the custom ones of any type included,
\* comes back from decoding its encoding.
C23_EveryCredentialRoundTrips ==
    codec.op = "credential_round_trip" => TypeThenBody /\ CredentialCameBack

\* C23: a credential comes back from decoding its encoding unless it is a
\* custom credential made with a type the build reserves; that one comes
\* back as the reserved variant (type 1 as the Basic credential with the
\* same bytes).  The encoding is the u16 type then the body, and a decoded
\* credential is Basic for tag 1, X.509 for tag 2 with the feature, and a
\* Custom credential with the tag and the data unchanged for any other tag.
C23_CredentialRoundTrip ==
    /\ codec.op = "credential_round_trip" =>
           /\ TypeThenBody
           /\ (codec.value.kind = "Custom"
               /\ codec.value.credential_type
                      \in ReservedCredentialTypes(codec.x509))
                  => ~CredentialCameBack
           /\ ~(codec.value.kind = "Custom"
                /\ codec.value.credential_type
                       \in ReservedCredentialTypes(codec.x509))
                  => CredentialCameBack
           /\ (codec.value.kind = "Custom"
               /\ codec.value.credential_type = CredentialType.BASIC)
                  => codec.decoded.result = Ok(Basic(codec.value.data))
    /\ (codec.op \in {"credential_round_trip", "credential_decode"}
        /\ codec.decoded.result.ok)
           => DecodedByTag

\* A custom credential of an unreserved type with data came back, with
\* bytes left in the reader.
C23_Witness ==
    /\ codec.op = "credential_round_trip"
    /\ codec.value.kind = "Custom"
    /\ codec.value.credential_type = 65535
    /\ codec.value.data /= <<>>
    /\ codec.decoded.result = Ok(codec.value)
    /\ codec.decoded.reader = <<0, 1>>

\* C24: a decoder that returns an error leaves the reader as it was before
\* the call.
C24_FailedDecodingConsumesNothing ==
    (pc = "coded" /\ ~codec.decoded.result.ok)
        => codec.decoded.reader = codec.input

\* The big-endian bytes of a value below 2^31 in `width` bytes.
BigEndian(x, width) ==
    [i \in 1..width |->
        IF width - i >= 4 THEN 0 ELSE (x \div (256 ^ (width - i))) % 256]

\* C26: the encoding of an integer is its big-endian representation, it has
\* mls_encoded_len bytes, the size of the type, and decoding it gives the
\* integer back and consumes exactly those bytes.
C26_UintRoundTrip ==
    codec.op = "uint_round_trip" =>
        /\ codec.encoded = BigEndian(codec.value, codec.width)
        /\ Len(codec.encoded) = codec.encoded_len
        /\ codec.encoded_len = codec.width
        /\ codec.decoded.result = Ok(codec.value)
        /\ codec.decoded.reader = Advance(codec.input, codec.width)

\* A u32 with four different bytes was encoded and came back, with bytes
\* left in the reader.
C26_Witness ==
    /\ codec.op = "uint_round_trip"
    /\ codec.width = 4
    /\ codec.encoded = <<1, 2, 3, 4>>
    /\ codec.decoded.result = Ok(16909060)
    /\ codec.decoded.reader = <<9>>

\* C25: a call of the vector decoder returns a value or an error; it never
\* ends without returning.
C25_DecodingReturns == vector.pc /= "aborted"

\* The bytes a membership tag is computed over: the wire format, the
\* content and the group context, then the auth data of the content.
MembershipBytes(call) ==
    mls_encode_uint(call.authenticated_content.wire_format, 2)
    \o FramedContent_encode(call.authenticated_content.content)
    \o GroupContext_serialize(call.group_context)
    \o FramedContentAuthData_encode(call.authenticated_content.auth)

\* C27: MembershipTag::create returns NonPlainWireFormat(wire_format) for
\* content that is not in the plaintext wire format, whether or not a MAC
\* could be computed; for plaintext content the tag is the MAC, under the
\* membership key, of the content with its auth data and the group context;
\* and two calls with equal inputs return equal results.
C27_MembershipTagOnlyForPlaintext ==
    /\ \A i \in 1..Len(membership) :
           LET call == membership[i]
           IN  IF call.authenticated_content.wire_format /= Plain
               THEN /\ ~call.tag.ok
                    /\ call.tag.err = <<"NonPlainWireFormat",
                                        call.authenticated_content.wire_format>>
               ELSE IF call.group_context.cipher_suite = "working"
               THEN /\ call.tag.ok
                    /\ call.tag.val = mac("working", call.membership_key,
                                          MembershipBytes(call)).val
               ELSE /\ ~call.tag.ok
                    /\ call.tag.err = <<"HMacError">>
    /\ \A i, j \in 1..Len(membership) :
           (/\ membership[i].authenticated_content
                   = membership[j].authenticated_content
            /\ membership[i].group_context = membership[j].group_context
            /\ membership[i].membership_key = membership[j].membership_key)
               => membership[i].tag = membership[j].tag

\* A tag was created twice for the same plaintext content, which carries a
\* confirmation tag, with the same group context and key.
C27_Witness ==
    /\ Len(membership) = 2
    /\ membership[1].authenticated_content.wire_format = Plain
    /\ membership[1].authenticated_content.auth.confirmation_tag /= None
    /\ membership[1].authenticated_content = membership[2].authenticated_content
    /\ membership[1].group_context = membership[2].group_context
    /\ membership[1].membership_key = membership[2].membership_key
    /\ membership[1].tag.ok
    /\ membership[1].tag = membership[2].tag

\* C28: the epoch of an endpoint is the number of commits it accepted, and
\* the k-th accepted commit was made against epoch k - 1 and verifies, so
\* each epoch has exactly one accepted commit; whatever an endpoint did
\* last, it left the epoch as it was unless it accepted a commit made
\* against that epoch, which advanced it by one, and a commit made against
\* another epoch was rejected as stale.
C28_OneEpochPerAcceptedCommit ==
    /\ \A r \in Receivers :
           LET state == group.receivers[r]
           IN  /\ state.epoch = Len(state.accepted)
               /\ \A k \in 1..Len(state.accepted) :
                      /\ state.accepted[k].epoch = k - 1
                      /\ state.accepted[k].valid
                      /\ state.accepted[k] \in group.sent
    /\ group.last.op /= "none" =>
           LET now == group.receivers[group.last.receiver].epoch
           IN  IF group.last.result.ok
               THEN /\ group.last.op = "process_incoming"
                    /\ group.last.commit.epoch = group.last.epoch
                    /\ now = group.last.epoch + 1
               ELSE /\ now = group.last.epoch
                    /\ (group.last.op = "process_incoming"
                        /\ group.last.commit.epoch /= group.last.epoch)
                           => group.last.result.err = "StaleEpoch"

\* An endpoint at epoch 1, having accepted a commit made against epoch 0,
\* has just rejected a second valid commit made against epoch 0 as stale.
C28_Witness ==
    /\ group.last.op = "process_incoming"
    /\ group.last.epoch = 1
    /\ group.last.commit.epoch = 0
    /\ group.last.commit.valid
    /\ group.last.commit /= group.receivers[group.last.receiver].accepted[1]
    /\ group.last.result = Err("StaleEpoch")
    /\ group.receivers[group.last.receiver].epoch = 1

\* The errors of the checks of the member pipeline that the bundle fails, in
\* the order of the checks: proposer authorisation, self-update,
\* self-removal, PreSharedKey, GroupContextExtensions (the external senders,
\* then at most one proposal), ReInit version, ReInit alone, ExternalInit.
\* A check that the bundle passes has no error.
StageErrors(b, c) ==
    << {"InvalidProposalTypeForSender" : x \in Unauthorised(b)},
       {"InvalidCommitSelfUpdate" : x \in SelfUpdates(b, c)},
       {"CommitterSelfRemoval" : x \in SelfRemovals(b, c)},
       {"MissingRequiredPsk" : x \in MissingPsks(b)},
       {IF At(b, x).proposal.external_senders = "rejected"
        THEN "IdentityProviderError" ELSE "ExtensionError" :
            x \in BadExternalSenders(b)},
       {"MoreThanOneGroupContextExtensionsProposal" :
            x \in ExtraGroupContextExtensions(b, c)},
       {"InvalidProtocolVersionInReInit" : x \in OldVersionReInits(b)},
       {"OtherProposalWithReInit" : x \in AccompaniedReInits(b, c)},
       {"InvalidProposalTypeForSender" : x \in ExternalInits(b)} >>

\* The checks that fail, given the errors of the checks in their order.
FailingStages(errors) == {k \in DOMAIN errors : errors[k] /= {}}

EarliestFailingStage(errors) ==
    CHOOSE k \in FailingStages(errors) : \A j \in FailingStages(errors) : k <= j

\* C29: under IgnoreNone a commit whose bundle fails checks of the pipeline
\* fails with the error of the earliest of them in the order proposer
\* authorisation, self-update, self-removal, PreSharedKey,
\* GroupContextExtensions, ReInit version, ReInit alone, ExternalInit; when
\* the bundle passes all of them, a failure is an error of the validation of
\* the leaves or of the edit of the tree, which run last.
C29_EarliestStageFails ==
    (Committed /\ strategy = "IgnoreNone") =>
        \A errors \in {StageErrors(proposals, commit_sender)} :
            IF FailingStages(errors) /= {}
            THEN /\ ~result.ok
                 /\ result.err \in errors[EarliestFailingStage(errors)]
            ELSE \/ result.ok
                 \/ result.err \in CheckErrors(proposals, commit_sender)
                                       \cup {"RemovingNonExistingMember"}

\* C29 witness: under IgnoreNone a bundle failed two checks with different
\* errors and the commit returned the error of the earlier one.
C29_Witness ==
    /\ Committed
    /\ strategy = "IgnoreNone"
    /\ ~result.ok
    /\ \E errors \in {StageErrors(proposals, commit_sender)} :
           \E j, k \in FailingStages(errors) :
               /\ j = EarliestFailingStage(errors)
               /\ j < k
               /\ j >= 3
               /\ errors[j] \cap errors[k] = {}
               /\ result.err \in errors[j]

\* The key package of an Add passes the validation against the list.
ValidAdd(p, extensions) ==
    /\ p.proposal.key_package.leaf_node.validity = "Ok"
    /\ p.proposal.key_package.properties = "Ok"
    /\ extensions.types \subseteq p.proposal.key_package.leaf_node.capabilities

\* C30: a GroupContextExtensions proposal whose required capabilities cannot
\* be read fails the commit when it is by-value or the strategy is
\* IgnoreNone; in a successful commit the GroupContextExtensions proposal
\* that passed the filters is applied exactly when its required capabilities
\* can be read, and the new leaves were validated against the list that
\* matches the applied set (the applied proposal's list, the original list
\* of the group when the proposal was removed or there was none): every
\* applied Update supports it, and the applied Adds are exactly the
\* authorised Adds of the bundle that are valid against it.
C30_ExtensionsInUseMatchApplied ==
    Committed =>
        LET unreadable == UnreadableCapabilities(proposals, commit_sender)
            dropped == FailsBeforeReInitAlone(proposals, commit_sender)
                           \cup unreadable
        IN  /\ (\E x \in unreadable :
                    is_by_value(At(proposals, x)) \/ strategy = "IgnoreNone")
                   => ~result.ok
            /\ result.ok =>
                  /\ Applied.group_context_extensions
                         = Without(proposals, dropped).group_context_extensions
                  /\ \A i \in 1..Len(Applied.updates) :
                         AppliedExtensions.types \subseteq
                             Applied.updates[i].proposal.leaf_node.capabilities
                  /\ Applied.additions
                         = KeepIndexes(proposals.additions,
                               {i \in 1..Len(proposals.additions) :
                                   /\ <<"additions", i>> \notin Unauthorised(proposals)
                                   /\ ValidAdd(proposals.additions[i],
                                               AppliedExtensions)})

\* C30 witness: under IgnoreByRef a by-reference GroupContextExtensions
\* proposal that lists the extension "ext" but whose required capabilities
\* cannot be read was removed, and an Add whose leaf does not support "ext"
\* was applied, the original extensions of the group being in use.
C30_Witness ==
    /\ Committed
    /\ strategy = "IgnoreByRef"
    /\ result.ok
    /\ \E x \in UnreadableCapabilities(proposals, commit_sender) :
           /\ is_by_reference(At(proposals, x))
           /\ "ext" \in At(proposals, x).proposal.types
    /\ Applied.group_context_extensions = <<>>
    /\ \E i \in 1..Len(Applied.additions) :
           "ext" \notin Applied.additions[i].proposal.key_package.leaf_node.capabilities

\* The elements of a vector, one after the other.
RECURSIVE Concatenated(_)
Concatenated(v) == IF v = <<>> THEN <<>> ELSE Head(v) \o Concatenated(Tail(v))

\* C31: a vector whose elements take fewer bytes than the length prefix can
\* count is written as that byte count in the prefix followed by the
\* elements in order, and the call returns tls_serialized_len; a longer one
\* fails with InvalidVectorLength and nothing is written; and the vector
\* read back from the bytes of a successful call is the vector written.
C31_VectorRoundTrip ==
    /\ wire.op \in {"serialize", "round_trip"} =>
           LET bytes == Len(Concatenated(wire.v))
           IN  IF bytes < 256 ^ wire.length_size
               THEN /\ wire.serialized
                           = Ok(tls_serialized_len(wire.v, wire.length_size))
                    /\ wire.writer
                           = wire.before
                             \o BigEndian(bytes, wire.length_size)
                             \o Concatenated(wire.v)
               ELSE /\ wire.serialized = Err("InvalidVectorLength")
                    /\ wire.writer = wire.before
    /\ (wire.op = "round_trip" /\ vector.pc \notin {"idle", "loop"}) =>
           /\ vector.pc = "returned"
           /\ vector.result = Ok(wire.v)

\* C33: a call of Vector::tls_deserialize that returns items has consumed
\* the length prefix and exactly as many bytes as the prefix declares, and
\* the sizes of the items add up to the declared length; a declared length
\* that ends inside an element makes the call return an error.
C33_ExactlyTheDeclaredLength ==
    (wire.op \in {"deserialize", "round_trip"} /\ vector.pc = "returned") =>
        /\ vector.result.ok =>
              /\ Len(wire.input) - Len(vector.reader)
                     = wire.length_size + vector.len
              /\ sum_serialized_len(vector.result.val) = vector.len
        /\ (/\ wire.item_size > 0
            /\ Len(wire.input) >= wire.length_size
            /\ from_be_bytes(SubSeq(wire.input, 1, wire.length_size))
                   % wire.item_size /= 0)
               => ~vector.result.ok

\* The GroupContextExtensions proposals that reach the uniqueness check, as
\* their indexes in the bundle.
ReachUniqueness(b, c) ==
    {i \in 1..Len(b.group_context_extensions) :
        <<"group_context_extensions", i>> \notin FailsBeforeUniqueness(b, c)}

\* C32: when several GroupContextExtensions proposals reach the uniqueness
\* check of a commit that no earlier check fails, a later one that is
\* by-value, or any later one under IgnoreNone, fails the commit with
\* MoreThanOneGroupContextExtensionsProposal, whatever the origin of the
\* first; otherwise the later ones are dropped, and a successful commit
\* applies the first in bundle order, or none when the required
\* capabilities of the first cannot be read.
C32_FirstGroupContextExtensionsKept ==
    (/\ Committed
     /\ Ignorable(proposals, FailsBeforeUniqueness(proposals, commit_sender)))
    => \A reach \in {ReachUniqueness(proposals, commit_sender)} :
           Cardinality(reach) >= 2 =>
               LET first == CHOOSE i \in reach : \A j \in reach : i <= j
                   p == proposals.group_context_extensions[first]
               IN  IF \E j \in reach \ {first} :
                          ~ignore(strategy,
                                  is_by_reference(
                                      proposals.group_context_extensions[j]))
                   THEN /\ ~result.ok
                        /\ result.err
                               = "MoreThanOneGroupContextExtensionsProposal"
                   ELSE result.ok =>
                            Applied.group_context_extensions
                                = IF get_as_required_capabilities(p.proposal).ok
                                  THEN <<p>> ELSE <<>>

\* C32 witness: under IgnoreByRef a by-reference GroupContextExtensions
\* proposal followed by a by-value one failed the commit at the uniqueness
\* check.
C32_Witness ==
    /\ Committed
    /\ strategy = "IgnoreByRef"
    /\ Len(proposals.group_context_extensions) = 2
    /\ is_by_reference(proposals.group_context_extensions[1])
    /\ is_by_value(proposals.group_context_extensions[2])
    /\ ~result.ok
    /\ result.err = "MoreThanOneGroupContextExtensionsProposal"

\* t is s without some of its elements: nothing added, changed, repeated or
\* moved.
IsSubsequence(t, s) == \E K \in SUBSET (1..Len(s)) : t = KeepIndexes(s, K)

\* C34: for each type the applied proposals of a successful commit are a
\* subsequence of the proposals of the bundle, and they are the bundle
\* without exactly the proposals that fail a check, however many of one
\* type fail at the same check.
C34_FilteringOnlyRemoves ==
    (Committed /\ result.ok) =>
        /\ \A f \in FieldSet : IsSubsequence(Applied[f], proposals[f])
        /\ SameProposals(Applied,
                         Without(proposals, Failing(proposals, commit_sender)))

\* C34 witness: a successful commit dropped two proposals of one type that
\* failed at the same check.
C34_Witness ==
    /\ Committed
    /\ result.ok
    /\ \E f \in {"additions", "group_context_extensions"} :
           /\ Len(proposals[f]) >= 2
           /\ Len(Applied[f]) = Len(proposals[f]) - 2
           /\ \/ {<<f, 1>>, <<f, 2>>} \subseteq Unauthorised(proposals)
              \/ {<<f, 1>>, <<f, 2>>} \subseteq BadAdds(proposals, commit_sender)
              \/ {<<f, 1>>, <<f, 2>>} \subseteq BadExternalSenders(proposals)

\* What apply_proposals_from_member returns for the applier, the committer
\* and the bundle of the commit under the strategy IgnoreByRef.
UnderIgnoreByRef ==
    apply_proposals_from_member(Applier, "IgnoreByRef", commit_sender,
                                proposals).result

\* C35: when the commit succeeds under IgnoreNone, the same call under
\* IgnoreByRef succeeds with the same applied proposals and the same new
\* tree.
C35_IgnoreByRefRelaxesIgnoreNone ==
    (Committed /\ strategy = "IgnoreNone" /\ result.ok) =>
        \A relaxed \in {UnderIgnoreByRef} :
            /\ relaxed.ok
            /\ relaxed.val.applied_proposals = result.val.applied_proposals
            /\ relaxed.val.new_tree = result.val.new_tree

\* C35 witness: a commit under IgnoreNone applied a by-reference proposal
\* and a by-value one and changed the tree.
C35_Witness ==
    /\ Committed
    /\ strategy = "IgnoreNone"
    /\ result.ok
    /\ \E x, y \in Positions(Applied) :
           /\ x[1] \in {"additions", "updates", "removals"}
           /\ is_by_reference(At(Applied, x))
           /\ is_by_value(At(Applied, y))
    /\ result.val.new_tree /= original_tree

\* A bundle of ReInits and of by-reference Adds and Updates, at least one of
\* each kind, where nothing fails before the ReInit-alone check and every
\* Add and Update fails the validation of its leaf.
ReInitWithFailingLeaves(b, c) ==
    /\ b.reinitializations /= <<>>
    /\ Len(b.additions) + Len(b.updates) > 0
    /\ length(b) = Len(b.reinitializations) + Len(b.additions) + Len(b.updates)
    /\ FailsBeforeReInitAlone(b, c) = {}
    /\ \A x \in Positions(b) :
           x[1] \in {"additions", "updates"} =>
               /\ is_by_reference(At(b, x))
               /\ x \in BadAdds(b, c) \cup BadUpdates(b, c)

\* C36: under IgnoreByRef, when a ReInit is accompanied only by by-reference
\* Adds and Updates that fail the validation of their leaves, the
\* ReInit-alone check still counts them: a by-reference ReInit is dropped
\* and the commit succeeds with nothing applied, and a by-value ReInit
\* fails the commit with OtherProposalWithReInit.
C36_ReInitAloneBeforeLeafValidation ==
    (/\ Committed
     /\ strategy = "IgnoreByRef"
     /\ ReInitWithFailingLeaves(proposals, commit_sender))
    => IF \E i \in 1..Len(proposals.reinitializations) :
              is_by_value(proposals.reinitializations[i])
       THEN /\ ~result.ok
            /\ result.err = "OtherProposalWithReInit"
       ELSE /\ result.ok
            /\ length(Applied) = 0

\* C36 witness: under IgnoreByRef a by-reference ReInit and a by-reference
\* Add whose leaf is invalid were committed and nothing was applied.
C36_Witness ==
    /\ Committed
    /\ strategy = "IgnoreByRef"
    /\ ReInitWithFailingLeaves(proposals, commit_sender)
    /\ Len(proposals.additions) = 1
    /\ is_by_reference(proposals.reinitializations[1])
    /\ result.ok
    /\ length(Applied) = 0

====
